---- MODULE Spec2Model ----
(***************************************************************************)
(* Plant search federation and local cache layer of plant-backend.         *)
(* Strings are sequences of one-character strings, so that normalisation,  *)
(* SQL LIKE matching, hashing and the address codec are computed character *)
(* by character as the TypeScript code computes them.                      *)
(***************************************************************************)
EXTENDS Integers, Sequences, FiniteSets, TLC

VARIABLES
    config,     \* PlantSearchConfig of the factory (fixed per deployment)
    entities,   \* table plant_search_entities, in rowid order
    queries,    \* table plant_search_queries, in rowid order
    results,    \* table plant_search_results, in rowid order
    stats,      \* table plant_search_provider_stats
    pc,         \* position of the request being served
    req,        \* the PlantSearchRequest being served
    idx,        \* index into providersToTry of the next provider
    obs,        \* what the current request has done so far (calls, stat writes)
    response,   \* the value search() returned (or the raise)
    nreq,       \* number of requests started
    faults,     \* number of store statements that have failed so far
    tok,        \* address codec harness: inputs and outputs of one round trip
    calc,       \* the last call of a text function: its arguments and its value
    callers     \* position of each concurrent caller of recordQuery

vars == <<config, entities, queries, results, stats, pc, req, idx, obs, response, nreq, faults,
          tok, calc, callers>>

-----------------------------------------------------------------------------
(* Characters *)

UpperChars == <<"A","B","C","D","E","F","G","H","I","J","K","L","M",
                "N","O","P","Q","R","S","T","U","V","W","X","Y","Z">>
LowerChars == <<"a","b","c","d","e","f","g","h","i","j","k","l","m",
                "n","o","p","q","r","s","t","u","v","w","x","y","z">>
DigitChars == <<"0","1","2","3","4","5","6","7","8","9">>

SeqRange(s) == {s[i] : i \in 1..Len(s)}

IndexOfChar(s, c) == CHOOSE i \in 1..Len(s) : s[i] = c

\* String.prototype.toLowerCase, one character
ToLowerChar(c) ==
    IF c \in SeqRange(UpperChars) THEN LowerChars[IndexOfChar(UpperChars, c)] ELSE c

\* regex class \s (the whitespace characters the model uses)
IsSpaceChar(c) == c \in {" ", "\t"}

\* regex class \w
IsWordChar(c) ==
    c \in SeqRange(UpperChars) \cup SeqRange(LowerChars) \cup SeqRange(DigitChars) \cup {"_"}

\* charCodeAt for the characters a normalised query or a token text can hold
CharCode(c) ==
    IF c \in SeqRange(LowerChars) THEN 96 + IndexOfChar(LowerChars, c)
    ELSE IF c \in SeqRange(UpperChars) THEN 64 + IndexOfChar(UpperChars, c)
    ELSE IF c \in SeqRange(DigitChars) THEN 47 + IndexOfChar(DigitChars, c)
    ELSE IF c = " " THEN 32
    ELSE IF c = "\t" THEN 9
    ELSE IF c = "-" THEN 45
    ELSE IF c = "_" THEN 95
    ELSE IF c = "|" THEN 124
    ELSE IF c = "+" THEN 43
    ELSE IF c = "/" THEN 47
    ELSE IF c = "=" THEN 61
    ELSE IF c = "!" THEN 33
    ELSE IF c = "." THEN 46
    ELSE 63

-----------------------------------------------------------------------------
(* Generic sequence helpers *)

MapSeq(s, F(_)) == [i \in 1..Len(s) |-> F(s[i])]

\* Array.prototype.slice(0, n) / String.prototype.substring(0, n)
Slice(s, n) == SubSeq(s, 1, IF Len(s) < n THEN Len(s) ELSE n)

RECURSIVE Flatten(_)
Flatten(ss) == IF ss = <<>> THEN <<>> ELSE Head(ss) \o Flatten(Tail(ss))

\* String.prototype.indexOf(needle) as a 0-based position, -1 when absent
OccursAt(text, needle, i) ==
    /\ i + Len(needle) - 1 <= Len(text)
    /\ \A j \in 1..Len(needle) : text[i + j - 1] = needle[j]

IndexOf(text, needle) ==
    IF \E i \in 1..(Len(text) + 1) : OccursAt(text, needle, i)
    THEN (CHOOSE i \in 1..(Len(text) + 1) :
             /\ OccursAt(text, needle, i)
             /\ \A k \in 1..(i - 1) : ~OccursAt(text, needle, k)) - 1
    ELSE -1

ToLowerCase(s) == MapSeq(s, ToLowerChar)

-----------------------------------------------------------------------------
(* normalizeQuery *)

QueryMaxLen == 200

RECURSIVE TrimLeft(_)
TrimLeft(s) == IF s # <<>> /\ IsSpaceChar(Head(s)) THEN TrimLeft(Tail(s)) ELSE s

RECURSIVE TrimRight(_)
TrimRight(s) ==
    IF s # <<>> /\ IsSpaceChar(s[Len(s)]) THEN TrimRight(SubSeq(s, 1, Len(s) - 1)) ELSE s

\* String.prototype.trim
Trim(s) == TrimRight(TrimLeft(s))

\* .replace(/\s+/g, ' ')
CollapseSpaces(s) ==
    LET InRun(i) == IsSpaceChar(s[i]) /\ i > 1 /\ IsSpaceChar(s[i - 1])
        Mark(i)  == <<IF IsSpaceChar(s[i]) THEN " " ELSE s[i], ~InRun(i)>>
        First(p) == p[2]
        Char(p)  == p[1]
    IN  MapSeq(SelectSeq([i \in 1..Len(s) |-> Mark(i)], First), Char)

KeptChar(c) == IsWordChar(c) \/ IsSpaceChar(c) \/ c = "-"

\* .replace(/[^\w\s-]/g, '')
StripSpecial(s) == SelectSeq(s, KeptChar)

normalizeQuery(query) ==
    Slice(StripSpecial(CollapseSpaces(Trim(ToLowerCase(query)))), QueryMaxLen)

-----------------------------------------------------------------------------
(* hashQuery: a 32-bit rolling hash of "<normalized>|<filters>", rendered   *)
(* in base 36.  The 32-bit value is kept as two 16-bit limbs <<hi, lo>>.    *)

Limb == 65536

\* hash = ((hash << 5) - hash) + char; hash = hash & hash
HashStep(h, code) ==
    LET lo == h[2] * 31 + code
        hi == h[1] * 31 + (lo \div Limb)
    IN  <<hi % Limb, lo % Limb>>

RECURSIVE HashFold(_, _)
HashFold(h, s) == IF s = <<>> THEN h ELSE HashFold(HashStep(h, CharCode(Head(s))), Tail(s))

\* Math.abs of the signed 32-bit value, still as limbs (hi may reach 32768)
AbsLimbs(h) ==
    IF h[1] < 32768 THEN h
    ELSE <<(Limb - 1 - h[1]) + (IF h[2] = 0 THEN 1 ELSE 0), (Limb - h[2]) % Limb>>

Base36Chars == DigitChars \o LowerChars

\* Number.prototype.toString(36) of a non-negative integer
RECURSIVE ToBase36(_)
ToBase36(n) ==
    IF n < 36 THEN <<Base36Chars[n + 1]>>
    ELSE ToBase36(n \div 36) \o <<Base36Chars[(n % 36) + 1]>>

LimbsToBase36(h) ==
    LET qh   == h[1] \div 36
        rest == (h[1] % 36) * Limb + h[2]
        q    == qh * Limb + (rest \div 36)
    IN  IF q = 0 THEN <<Base36Chars[(rest % 36) + 1]>>
        ELSE ToBase36(q) \o <<Base36Chars[(rest % 36) + 1]>>

\* a hash of the raw text, without normalizeQuery
hashQueryRaw(query) ==
    LimbsToBase36(AbsLimbs(HashFold(<<0, 0>>, query \o <<"|">>)))

\* hashQuery(query) as recordQuery calls it (no filters: filterString = '')
hashQuery(query) ==
    LimbsToBase36(AbsLimbs(HashFold(<<0, 0>>, normalizeQuery(query) \o <<"|">>)))

\* the query texts that are searched for: a genus name and a misspelt epithet
Ficus == <<"F","i","c","u","s">>
Lyrta == <<"l","y","r","t","a">>
SearchTexts == {Ficus, Lyrta}

\* raw texts handed to recordQuery on its own: two spellings of one query,
\* another query, and two queries whose hashes are equal
FicusLoud == <<"F","I","C","U","S","!">>
An == <<"a","n">>
C0 == <<"c","0">>
RecordTexts == {Ficus, FicusLoud, Lyrta, An, C0}

\* normalizeQuery and hashQuery tabulated over the query texts
Normalized == [q \in SearchTexts \cup RecordTexts |-> normalizeQuery(q)]
Hashed     == [q \in SearchTexts \cup RecordTexts |-> hashQuery(q)]

-----------------------------------------------------------------------------
(* SQL text matching *)

\* text LIKE pattern: % matches any run, _ any one character, letters
\* compare case-insensitively
RECURSIVE SqlLike(_, _)
SqlLike(text, pattern) ==
    IF pattern = <<>> THEN text = <<>>
    ELSE IF Head(pattern) = "%"
         THEN \/ SqlLike(text, Tail(pattern))
              \/ (text # <<>> /\ SqlLike(Tail(text), pattern))
    ELSE /\ text # <<>>
         /\ (Head(pattern) = "_" \/ ToLowerChar(Head(text)) = ToLowerChar(Head(pattern)))
         /\ SqlLike(Tail(text), Tail(pattern))

\* JSON.stringify of an array of strings
RECURSIVE JsonItems(_)
JsonItems(names) ==
    IF names = <<>> THEN <<>>
    ELSE <<"\"">> \o Head(names) \o <<"\"">>
         \o (IF Len(names) > 1 THEN <<",">> ELSE <<>>) \o JsonItems(Tail(names))

JsonArray(names) == <<"[">> \o JsonItems(names) \o <<"]">>

\* the tokens of a text under the FTS5 default tokenizer: maximal runs of
\* letters and digits, case-folded
IsTokenChar(c) ==
    c \in SeqRange(UpperChars) \cup SeqRange(LowerChars) \cup SeqRange(DigitChars)

RECURSIVE TokensFrom(_, _)
TokensFrom(s, cur) ==
    IF s = <<>> THEN (IF cur = <<>> THEN {} ELSE {cur})
    ELSE IF IsTokenChar(Head(s)) THEN TokensFrom(Tail(s), cur \o <<ToLowerChar(Head(s))>>)
    ELSE (IF cur = <<>> THEN {} ELSE {cur}) \cup TokensFrom(Tail(s), <<>>)

Tokens(s) == TokensFrom(s, <<>>)

\* the words of a MATCH expression: the runs between spaces
RECURSIVE WordsFrom(_, _)
WordsFrom(s, cur) ==
    IF s = <<>> THEN (IF cur = <<>> THEN {} ELSE {cur})
    ELSE IF Head(s) = " " THEN (IF cur = <<>> THEN {} ELSE {cur}) \cup WordsFrom(Tail(s), <<>>)
    ELSE WordsFrom(Tail(s), cur \o <<Head(s)>>)

\* Number.prototype.toString() of a non-negative integer
RECURSIVE ToDecimal(_)
ToDecimal(n) ==
    IF n < 10 THEN <<DigitChars[n + 1]>>
    ELSE ToDecimal(n \div 10) \o <<DigitChars[(n % 10) + 1]>>

-----------------------------------------------------------------------------
(* The persistent store (D1): PlantSearchDatabase.  A database value is a   *)
(* record of the four tables.  Every operation returns the new database,    *)
(* whether the statement raised, and its value; a statement raises when the *)
(* store fails at that point (fault flags are the step's inputs).           *)

Ok(db, val) == [db |-> db, raised |-> FALSE, val |-> val, used |-> 0]
Raise(db)   == [db |-> db, raised |-> TRUE,  val |-> 0,   used |-> 1]

EmptyDb == [entities |-> <<>>, queries |-> <<>>, results |-> <<>>, stats |-> <<>>]

\* INTEGER PRIMARY KEY AUTOINCREMENT; rows are never deleted by this code
NextRowId(rows) == IF rows = <<>> THEN 1 ELSE rows[Len(rows)].id + 1

MinOf(S) == CHOOSE x \in S : \A y \in S : x <= y

\* recordQuery: UPDATE ... WHERE query_hash = ?; INSERT when no row changed;
\* otherwise SELECT id
recordQuery(db, query, failUpdate, failInsert, failSelect) ==
    LET Record(normalized, hash) ==
            LET hits   == {i \in 1..Len(db.queries) : db.queries[i].query_hash = hash}
                bumped == [i \in 1..Len(db.queries) |->
                             IF i \in hits
                             THEN [db.queries[i] EXCEPT !.search_count = @ + 1]
                             ELSE db.queries[i]]
                row    == [id |-> NextRowId(db.queries),
                           query_original |-> query,
                           query_normalized |-> normalized,
                           query_hash |-> hash,
                           search_count |-> 1]
            IN  IF failUpdate THEN Raise(db)
                ELSE IF hits = {}
                     THEN IF failInsert THEN Raise(db)
                          ELSE Ok([db EXCEPT !.queries = Append(@, row)], row.id)
                ELSE IF failSelect THEN Raise([db EXCEPT !.queries = bumped])
                ELSE Ok([db EXCEPT !.queries = bumped], db.queries[MinOf(hits)].id)
    IN  Record(Normalized[query], Hashed[query])

\* the three statements of recordQuery, each one atomic in the store:
\* UPDATE ... SET search_count = search_count + 1 WHERE query_hash = ?
\* (val: meta.changes)
UpdateQueryCount(db, hash) ==
    LET hits == {i \in 1..Len(db.queries) : db.queries[i].query_hash = hash}
        Bump(i) == IF i \in hits THEN [db.queries[i] EXCEPT !.search_count = @ + 1]
                   ELSE db.queries[i]
    IN  Ok([db EXCEPT !.queries = [i \in 1..Len(db.queries) |-> Bump(i)]], Cardinality(hits))

\* INSERT INTO plant_search_queries (query_original, query_normalized,
\* query_hash): the table has no uniqueness constraint besides the primary
\* key (val: meta.last_row_id)
InsertQuery(db, query) ==
    LET row == [id |-> NextRowId(db.queries),
                query_original |-> query,
                query_normalized |-> Normalized[query],
                query_hash |-> Hashed[query],
                search_count |-> 1]
    IN  Ok([db EXCEPT !.queries = Append(@, row)], row.id)

\* SELECT id ... WHERE query_hash = ? with .first(); existing?.id || 0
SelectQueryId(db, hash) ==
    LET hits == {i \in 1..Len(db.queries) : db.queries[i].query_hash = hash}
    IN  Ok(db, IF hits = {} THEN 0 ELSE db.queries[MinOf(hits)].id)

\* the uniqueness constraints of plant_search_entities: the primary key only
EntityConflict(row, new) == row.id = new.id

\* storeEntity: INSERT OR REPLACE with a fresh AUTOINCREMENT id
storeEntity(db, entity, fail) ==
    LET new == [id |-> NextRowId(db.entities),
                entity_name |-> entity.entity_name,
                common_names |-> entity.common_names,
                synonyms |-> entity.synonyms,
                provider_source |-> entity.provider_source,
                provider_id |-> entity.provider_id,
                has_characteristics |-> entity.has_characteristics,
                indoor |-> entity.indoor]
        Kept(row) == ~EntityConflict(row, new)
    IN  IF fail THEN Raise(db)
        ELSE Ok([db EXCEPT !.entities = Append(SelectSeq(@, Kept), new)], new.id)

\* storeSearchResults: for each entity, look its row up by
\* (entity_name, provider_source) and insert a link when one exists;
\* failAt is the 1-based position of the insert that raises (0: none)
RECURSIVE storeSearchResultsFrom(_, _, _, _, _, _)
storeSearchResultsFrom(db, queryId, ents, provider, i, failAt) ==
    IF i > Len(ents) THEN Ok(db, 0)
    ELSE LET e    == ents[i]
             hits == {k \in 1..Len(db.entities) :
                        /\ db.entities[k].entity_name = e.entity_name
                        /\ db.entities[k].provider_source = e.provider_source}
             link == [id |-> NextRowId(db.results),
                      query_id |-> queryId,
                      entity_id |-> db.entities[MinOf(hits)].id,
                      provider_used |-> provider,
                      result_position |-> i - 1]
         IN  IF hits = {} THEN storeSearchResultsFrom(db, queryId, ents, provider, i + 1, failAt)
             ELSE IF failAt = i THEN Raise(db)
             ELSE storeSearchResultsFrom([db EXCEPT !.results = Append(@, link)],
                                         queryId, ents, provider, i + 1, failAt)

storeSearchResults(db, queryId, ents, provider, failAt) ==
    storeSearchResultsFrom(db, queryId, ents, provider, 1, failAt)

\* new Date().toISOString().split('T')[0]
Today == "today"

\* SQL numbers of the two average columns: exact fractions <<numerator,
\* denominator>> in lowest terms; NULL is <<0, 0>>
RECURSIVE Gcd(_, _)
Gcd(a, b) == IF b = 0 THEN a ELSE Gcd(b, a % b)

Frac(n, d) == <<n \div Gcd(n, d), d \div Gcd(n, d)>>

SqlNull == <<0, 0>>
IsSqlNull(x) == x[2] = 0

\* (avg * weight + value) / count in SQL: NULL when avg is NULL, and NULL
\* when count is 0 (SQLite gives NULL for a division by zero)
SqlAverage(avg, weight, value, count) ==
    IF IsSqlNull(avg) \/ count = 0 THEN SqlNull
    ELSE Frac(avg[1] * weight + value * avg[2], avg[2] * count)

\* every call counted as a failure
FailCountAlways(success) == 1

\* const failCount = success ? 0 : 1
FailCount(success) == IF success THEN 0 ELSE 1

\* const successCount = success ? 1 : 0
SuccessCount(success) == IF success THEN 1 ELSE 0

\* recordProviderStats: INSERT ... ON CONFLICT(provider_name, search_date) DO
\* UPDATE; today is the date of the clock.  Every column on the right of a
\* SET is the value the row had before the statement.
recordProviderStats(db, provider, today, success, responseTimeMs, resultsCount, fail) ==
    LET hits == {i \in 1..Len(db.stats) :
                    /\ db.stats[i].provider_name = provider
                    /\ db.stats[i].search_date = today}
        row == [id |-> NextRowId(db.stats),
                provider_name |-> provider,
                search_date |-> today,
                total_requests |-> 1,
                successful_requests |-> SuccessCount(success),
                failed_requests |-> FailCount(success),
                avg_response_time_ms |-> <<responseTimeMs, 1>>,
                avg_results_returned |-> <<resultsCount, 1>>]
        Updated(old) ==
            [old EXCEPT !.total_requests = @ + 1,
                        !.successful_requests = @ + SuccessCount(success),
                        !.failed_requests = @ + FailCount(success),
                        !.avg_response_time_ms =
                            SqlAverage(@, old.total_requests - 1, responseTimeMs,
                                       old.total_requests),
                        !.avg_results_returned =
                            SqlAverage(@, old.successful_requests - SuccessCount(success),
                                       resultsCount, old.successful_requests)]
        updated == [i \in 1..Len(db.stats) |->
                      IF i \in hits THEN Updated(db.stats[i]) ELSE db.stats[i]]
    IN  IF fail THEN Raise(db)
        ELSE IF hits = {} THEN Ok([db EXCEPT !.stats = Append(@, row)], 0)
        ELSE Ok([db EXCEPT !.stats = updated], 0)

\* convertStoredEntityToSearchEntity: the address is minted from the row id
\* and the row's provider_source
convertStoredEntityToSearchEntity(stored) ==
    [entity_name |-> stored.entity_name,
     common_names |-> stored.common_names,
     synonyms |-> stored.synonyms,
     provider_source |-> stored.provider_source,
     provider_id |-> stored.provider_id,
     has_characteristics |-> stored.has_characteristics,
     indoor |-> stored.indoor,
     token_id |-> stored.id,
     token_provider |-> stored.provider_source]

\* first statement of searchLocal: LIKE on the three text columns,
\* ORDER BY CASE (exact name 1, name prefix 2, else 3), ties in rowid order
ExactRank(row, normalized) ==
    IF ToLowerCase(row.entity_name) = normalized THEN 1
    ELSE IF SqlLike(ToLowerCase(row.entity_name), normalized \o <<"%">>) THEN 2
    ELSE 3

ExactMatches(rows, normalized) ==
    LET pattern == <<"%">> \o normalized \o <<"%">>
        Hit(row) == \/ SqlLike(ToLowerCase(row.entity_name), pattern)
                    \/ SqlLike(ToLowerCase(JsonArray(row.common_names)), pattern)
                    \/ SqlLike(ToLowerCase(JsonArray(row.synonyms)), pattern)
        matched  == SelectSeq(rows, Hit)
        R1(row)  == ExactRank(row, normalized) = 1
        R2(row)  == ExactRank(row, normalized) = 2
        R3(row)  == ExactRank(row, normalized) = 3
    IN  SelectSeq(matched, R1) \o SelectSeq(matched, R2) \o SelectSeq(matched, R3)

\* second statement: rows of the full-text index (entity_id, entity_name,
\* common_names, synonyms) holding every word of the MATCH expression;
\* the bm25 order is taken to be rowid order
FtsMatches(rows, normalized) ==
    LET words == WordsFrom(normalized, <<>>)
        Doc(row) == Tokens(ToDecimal(row.id)) \cup Tokens(row.entity_name)
                    \cup Tokens(JsonArray(row.common_names))
                    \cup Tokens(JsonArray(row.synonyms))
        Hit(row) == words \subseteq Doc(row)
    IN  SelectSeq(rows, Hit)

\* searchLocal(query, limit)
searchLocal(db, query, limit, failExact, failFts) ==
    LET AllResults(exactResults, ftsResults) ==
            LET exactIds   == {exactResults[i].id : i \in 1..Len(exactResults)}
                Fresh(row) == row.id \notin exactIds
            IN  exactResults \o SelectSeq(ftsResults, Fresh)
        Fuzzy(normalized, exactResults) ==
            IF Len(exactResults) >= limit
            THEN Ok(db, MapSeq(Slice(exactResults, limit), convertStoredEntityToSearchEntity))
            ELSE IF failFts THEN [Raise(db) EXCEPT !.used = 0]
            ELSE Ok(db, MapSeq(Slice(AllResults(exactResults,
                                                Slice(FtsMatches(db.entities, normalized),
                                                      limit - Len(exactResults))),
                                     limit),
                               convertStoredEntityToSearchEntity))
        Exact(normalized) ==
            Fuzzy(normalized, Slice(ExactMatches(db.entities, normalized), limit))
    IN  IF failExact THEN Raise(db) ELSE Exact(Normalized[query])

-----------------------------------------------------------------------------
(* calculateSimilarity, as an exact fraction <<numerator, denominator>> *)

MaxOf2(a, b) == IF a >= b THEN a ELSE b
MinOf2(a, b) == IF a <= b THEN a ELSE b

\* one row of the edit-distance matrix from the row above it
RECURSIVE LevRow(_, _, _, _, _)
LevRow(a, bj, prev, i, acc) ==
    IF i > Len(a) THEN acc
    ELSE LET indicator == IF a[i] = bj THEN 0 ELSE 1
             cell == MinOf2(MinOf2(acc[i] + 1, prev[i + 1] + 1), prev[i] + indicator)
         IN  LevRow(a, bj, prev, i + 1, Append(acc, cell))

RECURSIVE LevRows(_, _, _, _)
LevRows(a, b, j, prev) ==
    IF j > Len(b) THEN prev
    ELSE LevRows(a, b, j + 1, LevRow(a, b[j], prev, 1, <<j>>))

LevenshteinDistance(a, b) == LevRows(a, b, 1, [i \in 1..(Len(a) + 1) |-> i - 1])[Len(a) + 1]

calculateLevenshteinSimilarity(a, b) ==
    IF Len(a) = 0 THEN (IF Len(b) = 0 THEN <<1, 1>> ELSE <<0, 1>>)
    ELSE IF Len(b) = 0 THEN <<0, 1>>
    ELSE LET maxLength == MaxOf2(Len(a), Len(b))
             distance  == LevenshteinDistance(a, b)
         IN  <<MaxOf2(0, maxLength - distance), maxLength>>

\* a needle found past the start of the text only
IncludesInside(text, needle) == IndexOf(text, needle) > 0

\* String.prototype.includes / startsWith
Includes(text, needle) == IndexOf(text, needle) # -1
StartsWith(text, needle) == OccursAt(text, needle, 1)

\* the contains-match score weighted by the inverse ratio
calculateSimilarityInverse(query, target) ==
    LET Score(normalizedQuery, normalizedTarget) ==
            IF normalizedQuery = normalizedTarget THEN <<1, 1>>
            ELSE IF Includes(normalizedTarget, normalizedQuery)
                 THEN <<4 * Len(normalizedTarget), 5 * MaxOf2(1, Len(normalizedQuery))>>
            ELSE IF StartsWith(normalizedTarget, normalizedQuery)
                 THEN <<9 * Len(normalizedQuery), 10 * Len(normalizedTarget)>>
            ELSE calculateLevenshteinSimilarity(normalizedQuery, normalizedTarget)
    IN  Score(normalizeQuery(query), normalizeQuery(target))

calculateSimilarity(query, target) ==
    LET Score(normalizedQuery, normalizedTarget) ==
            IF normalizedQuery = normalizedTarget THEN <<1, 1>>
            ELSE IF Includes(normalizedTarget, normalizedQuery)
                 THEN <<4 * Len(normalizedQuery), 5 * Len(normalizedTarget)>>
            ELSE IF StartsWith(normalizedTarget, normalizedQuery)
                 THEN <<9 * Len(normalizedQuery), 10 * Len(normalizedTarget)>>
            ELSE calculateLevenshteinSimilarity(normalizedQuery, normalizedTarget)
    IN  Score(normalizeQuery(query), normalizeQuery(target))

\* comparison of two fractions with positive denominators
FracGreater(x, y) == x[1] * y[2] > y[1] * x[2]

-----------------------------------------------------------------------------
(* Source adapters *)

ProviderTypes == {"local", "perenual", "gbif", "inaturalist", "openai", "mock"}

\* createProvider(type): the adapter class, or "raise" when construction throws
createProvider(cfg, type) ==
    LET providerType == IF type # "" THEN type
                        ELSE IF cfg.default # "" THEN cfg.default ELSE "perenual"
    IN  IF providerType = "local" THEN "local"
        ELSE IF providerType = "perenual"
             THEN (IF cfg.perenualKey THEN "perenual" ELSE "raise")
        ELSE IF providerType = "gbif" THEN "gbif"
        ELSE IF providerType = "inaturalist" THEN "inaturalist"
        ELSE IF providerType = "openai" THEN "raise"
        ELSE "mock"

\* every adapter class asks for its results to be stored
shouldCacheAlways(adapter) == TRUE

\* shouldCache() of each adapter class
shouldCache(adapter) == adapter \in {"perenual", "gbif", "inaturalist"}

\* what the upstream APIs know: name, vernacular name, native key, indoor flag
FicusLyrata   == <<"F","i","c","u","s"," ","l","y","r","a","t","a">>
FiddleLeafFig == <<"F","i","d","d","l","e"," ","L","e","a","f"," ","F","i","g">>
RosaCanina    == <<"R","o","s","a"," ","c","a","n","i","n","a">>
DogRose       == <<"D","o","g"," ","R","o","s","e">>

Upstream ==
    <<[name |-> FicusLyrata, vernacular |-> FiddleLeafFig, key |-> 7, indoor |-> "true"],
      [name |-> RosaCanina,  vernacular |-> DogRose,       key |-> 12, indoor |-> "false"]>>

\* convertPerenualToEntities / convertGBIFToEntities / iNaturalist conversion:
\* the entity an external adapter builds from one upstream record
ExternalEntity(adapter, plant) ==
    [entity_name |-> plant.name,
     common_names |-> <<plant.vernacular>>,
     synonyms |-> <<>>,
     provider_source |-> adapter,
     provider_id |-> ToDecimal(plant.key),
     has_characteristics |-> adapter \in {"perenual", "inaturalist"},
     indoor |-> IF adapter = "perenual" THEN plant.indoor ELSE "undefined",
     token_id |-> plant.key,
     token_provider |-> adapter]

\* request.limit || 10
DefaultLimit == 10
EffectiveLimit(request) == IF request.limit = 0 THEN DefaultLimit ELSE request.limit

AdapterMaxLimit == 100

\* search() of an external adapter: the upstream answer converted and cut to
\* min(limit, 100); an upstream error is caught inside and gives no entities
ExternalSearch(adapter, request, answer) ==
    LET limit == MinOf2(EffectiveLimit(request), AdapterMaxLimit)
        Conv(k) == ExternalEntity(adapter, Upstream[k])
    IN  [entities |-> Slice(MapSeq(answer, Conv), limit),
         provider |-> adapter, cached |-> FALSE, total_found |-> Len(answer)]

\* MOCK_PLANT_SPECIES: name, genus, common names
Monstera          == <<"M","o","n","s","t","e","r","a">>
MonsteraDeliciosa == Monstera \o <<" ","d","e","l","i","c","i","o","s","a">>
SwissCheesePlant  == <<"S","w","i","s","s"," ","C","h","e","e","s","e"," ","P","l","a","n","t">>

MOCK_PLANT_SPECIES ==
    <<[id |-> 1, name |-> FicusLyrata, genus |-> Ficus,
       common_names |-> <<FiddleLeafFig>>],
      [id |-> 2, name |-> MonsteraDeliciosa, genus |-> Monstera,
       common_names |-> <<SwissCheesePlant>>]>>

MockConfidenceFloor == <<1, 10>>

\* findMatches: one match per name field that contains the normalized query
findMatches(plant, normalizedQuery) ==
    LET nameHit  == IF IndexOf(ToLowerCase(plant.name), normalizedQuery) # -1
                    THEN <<calculateSimilarity(normalizedQuery, plant.name)>> ELSE <<>>
        Genus(g) == <<4 * g[1], 5 * g[2]>>
        genusHit == IF IndexOf(ToLowerCase(plant.genus), normalizedQuery) # -1
                    THEN <<Genus(calculateSimilarity(normalizedQuery, plant.genus))>>
                    ELSE <<>>
        CommonHit(cn) == IF IndexOf(ToLowerCase(cn), normalizedQuery) # -1
                         THEN <<calculateSimilarity(normalizedQuery, cn)>> ELSE <<>>
        commonHits == Flatten(MapSeq(plant.common_names, CommonHit))
        Confident(c) == FracGreater(c, MockConfidenceFloor)
    IN  SelectSeq(nameHit \o genusHit \o commonHits, Confident)

MockEntity(plant, confidence) ==
    [entity_name |-> plant.name,
     common_names |-> plant.common_names,
     synonyms |-> <<>>,
     provider_source |-> "mock",
     provider_id |-> ToDecimal(plant.id),
     has_characteristics |-> FALSE,
     indoor |-> "undefined",
     token_id |-> plant.id,
     token_provider |-> "mock",
     confidence |-> confidence]

\* stable insertion of x into a sequence sorted by descending confidence
RECURSIVE InsertByConfidence(_, _)
InsertByConfidence(sorted, x) ==
    IF sorted = <<>> THEN <<x>>
    ELSE IF FracGreater(x.confidence, Head(sorted).confidence)
         THEN <<x>> \o sorted
    ELSE <<Head(sorted)>> \o InsertByConfidence(Tail(sorted), x)

RECURSIVE SortByConfidence(_, _)
SortByConfidence(xs, acc) ==
    IF xs = <<>> THEN acc ELSE SortByConfidence(Tail(xs), InsertByConfidence(acc, Head(xs)))

\* searchMockPlants: collect matches plant by plant until limit * 3 are
\* found, sort by relevance, keep the first limit
RECURSIVE CollectMock(_, _, _, _)
CollectMock(plants, normalizedQuery, limit, acc) ==
    IF plants = <<>> THEN acc
    ELSE LET plant == Head(plants)
             Ent(c) == MockEntity(plant, c)
             Rest(more) == IF Len(more) >= limit * 3 THEN more
                           ELSE CollectMock(Tail(plants), normalizedQuery, limit, more)
         IN  Rest(acc \o MapSeq(findMatches(plant, normalizedQuery), Ent))

StripConfidence(e) ==
    [entity_name |-> e.entity_name, common_names |-> e.common_names,
     synonyms |-> e.synonyms, provider_source |-> e.provider_source,
     provider_id |-> e.provider_id, has_characteristics |-> e.has_characteristics,
     indoor |-> e.indoor, token_id |-> e.token_id, token_provider |-> e.token_provider]

MockSearch(request) ==
    LET limit == EffectiveLimit(request)
        found == CollectMock(MOCK_PLANT_SPECIES, Normalized[request.query], limit, <<>>)
        Result(top) == [entities |-> MapSeq(top, StripConfidence),
                        provider |-> "mock", cached |-> FALSE, total_found |-> Len(top)]
    IN  Result(Slice(SortByConfidence(found, <<>>), limit))

-----------------------------------------------------------------------------
(* LocalPlantSearchProvider *)

FlagCount(b) == IF b THEN 1 ELSE 0

\* applyFilters (the indoor predicate; the other predicates have its shape)
applyFilters(ents, indoorFilter) ==
    LET Pass(e) == \/ ~e.has_characteristics
                   \/ indoorFilter = "undefined"
                   \/ e.indoor = indoorFilter
    IN  IF indoorFilter = "undefined" THEN ents ELSE SelectSeq(ents, Pass)

EmptyLocalResult == [entities |-> <<>>, provider |-> "local", cached |-> TRUE, total_found |-> 0]

\* the catch block of LocalPlantSearchProvider.search; at names the call of
\* the try block that raised
LocalSearchCatch(db, used, found, kept, fl, at) ==
    LET st == recordProviderStats(db, "local", Today, FALSE, 0, 0, fl.catchStat)
    IN  [db |-> st.db, raised |-> st.raised, result |-> EmptyLocalResult,
         found |-> found, kept |-> kept, error |-> TRUE, failedAt |-> at,
         used |-> used + st.used,
         stat |-> IF st.raised THEN <<>> ELSE <<[op |-> "stat", p |-> "local", ok |-> FALSE, n |-> 0, ms |-> 0]>>]

\* LocalPlantSearchProvider.search(request)
LocalSearch(db, request, fl) ==
    LET limit == EffectiveLimit(request)
        \* after the stat write: the filters, then the result
        Filtered(found, st, filteredEntities) ==
            IF st.raised
            THEN LocalSearchCatch(st.db, st.used, Len(found), Len(filteredEntities), fl,
                                  "recordProviderStats")
            ELSE [db |-> st.db, raised |-> FALSE,
                  result |-> [entities |-> Slice(filteredEntities, limit),
                              provider |-> "local", cached |-> TRUE,
                              total_found |-> Len(filteredEntities)],
                  found |-> Len(found), kept |-> Len(filteredEntities),
                  error |-> FALSE, failedAt |-> "", used |-> 0,
                  stat |-> <<[op |-> "stat", p |-> "local", ok |-> TRUE,
                              n |-> Len(found), ms |-> 0]>>]
        \* after searchLocal: the stat write
        Searched(sl) ==
            IF sl.raised THEN LocalSearchCatch(sl.db, sl.used, -1, -1, fl, "searchLocal")
            ELSE Filtered(sl.val,
                          recordProviderStats(sl.db, "local", Today, TRUE, 0, Len(sl.val), fl.stat),
                          applyFilters(sl.val, request.indoor))
        \* after recordQuery: searchLocal
        Recorded(rq) ==
            IF rq.raised THEN LocalSearchCatch(rq.db, rq.used, -1, -1, fl, "recordQuery")
            ELSE Searched(searchLocal(rq.db, request.query, limit, fl.exact, fl.fts))
    IN  Recorded(recordQuery(db, request.query, fl.qUpdate, fl.qInsert, fl.qSelect))

RECURSIVE storeEntitiesFrom(_, _, _, _)
storeEntitiesFrom(db, ents, i, failAt) ==
    IF i > Len(ents) THEN Ok(db, 0)
    ELSE LET se == storeEntity(db, ents[i], failAt = i)
         IN  IF se.raised THEN se ELSE storeEntitiesFrom(se.db, ents, i + 1, failAt)

\* storeExternalResults(query, results): recordQuery, storeEntity for each
\* entity, storeSearchResults; any raise is caught and logged.  failAt
\* numbers the statement that fails: 1 the query record, 1 + i the i-th
\* entity insert, 1 + n + i the i-th link insert (0: none)
storeExternalResults(db, query, result, failAt) ==
    LET n  == Len(result.entities)
        Caught(st) == [db |-> st.db, raised |-> FALSE, used |-> st.used]
        Stored(queryId, se) ==
            IF se.raised THEN Caught(se)
            ELSE Caught(storeSearchResults(se.db, queryId, result.entities, result.provider,
                                           IF failAt > 1 + n THEN failAt - 1 - n ELSE 0))
        Recorded(rq) ==
            IF rq.raised THEN Caught(rq)
            ELSE Stored(rq.val,
                        storeEntitiesFrom(rq.db, result.entities, 1,
                                          IF failAt > 1 /\ failAt <= 1 + n
                                          THEN failAt - 1 ELSE 0))
    IN  Recorded(recordQuery(db, query, failAt = 1, FALSE, FALSE))

-----------------------------------------------------------------------------
(* Bounds and the requests served *)

MaxRequests == 2
MaxFaults   == 1
MaxResults  == 1

NoFilter == "undefined"

\* the search requests the endpoint passes on: a misspelt name, and a name the
\* stored rows contain together with an indoor filter
Requests ==
    {[query |-> Lyrta, limit |-> 2, indoor |-> NoFilter],
     [query |-> Ficus, limit |-> 2, indoor |-> "false"]}

\* the same searches without a filter
PlainRequests ==
    {[query |-> Lyrta, limit |-> 2, indoor |-> NoFilter],
     [query |-> Ficus, limit |-> 2, indoor |-> NoFilter]}

\* MockPlantSearchProvider.search, tabulated over the requests
MockResults == [r \in Requests \cup PlainRequests |-> MockSearch(r)]

-----------------------------------------------------------------------------
(* PlantSearchFactory.search *)

NonEmptyText(t) == t # ""

\* [default || "perenual", ...(degradation || ["gbif", "mock"])].filter(Boolean)
providersToTry(cfg) ==
    SelectSeq(<<IF cfg.default # "" THEN cfg.default ELSE "perenual">>
              \o (IF cfg.hasDegradation THEN cfg.degradation ELSE <<"gbif", "mock">>),
              NonEmptyText)

Event(op, p, ok, n) == [op |-> op, p |-> p, ok |-> ok, n |-> n, ms |-> 0]

\* a stat record with the latency it was given
TimedStat(p, ok, ms, n) == [Event("stat", p, ok, n) EXCEPT !.ms = ms]

\* the catch block of the provider loop: a failed stat, then the next provider
LoopCatch(db, providerType, events, used, in) ==
    LET st == recordProviderStats(db, providerType, Today, FALSE, 0, 0, in.failCatchStat)
    IN  IF st.raised
        THEN [db |-> st.db, next |-> "raise", result |-> EmptyLocalResult,
              events |-> events, used |-> used + st.used]
        ELSE [db |-> st.db, next |-> "continue", result |-> EmptyLocalResult,
              events |-> events \o <<Event("stat", providerType, FALSE, 0)>>,
              used |-> used]

\* a write-back whose failing statement reaches the provider loop
CacheResultsUnguarded(db, adapter, query, result, failStore) ==
    IF shouldCache(adapter)
    THEN LET Thrown(wb) == [db |-> wb.db, raised |-> wb.used > 0, used |-> wb.used]
         IN  Thrown(storeExternalResults(db, query, result, failStore))
    ELSE [db |-> db, raised |-> FALSE, used |-> 0]

\* "Store results in local database for future searches": the write-back of a
\* caching provider's result, inside its own try/catch (a raise is logged)
CacheResults(db, adapter, query, result, failStore) ==
    IF shouldCache(adapter)
    THEN LET Logged(wb) == [db |-> wb.db, raised |-> FALSE, used |-> wb.used]
         IN  Logged(storeExternalResults(db, query, result, failStore))
    ELSE [db |-> db, raised |-> FALSE, used |-> 0]

\* one iteration of the loop over providersToTry
TryProviderType(db, cfg, request, providerType, in) ==
    LET Continue(newDb, events) ==
            [db |-> newDb, next |-> "continue", result |-> EmptyLocalResult,
             events |-> events, used |-> 0]
        \* the provider is not available: a failed stat, then the next provider
        Down(probed, stDown) ==
            IF stDown.raised THEN LoopCatch(db, providerType, probed, stDown.used, in)
            ELSE Continue(stDown.db,
                          probed \o <<TimedStat(providerType, FALSE, in.elapsed, 0)>>)
        \* after createProvider: isAvailable, tryProvider, the success stat, the
        \* write-back, return
        Created(adapter, created) ==
            LET Cached(result, n, searched, wb) ==
                    IF wb.raised
                    THEN LoopCatch(wb.db, providerType,
                                   searched \o <<Event("stat", providerType, TRUE, n),
                                                 Event("store", providerType, FALSE,
                                                       Len(wb.db.entities)
                                                       - Len(db.entities))>>,
                                   wb.used, in)
                    ELSE [db |-> wb.db, next |-> "return", result |-> result,
                          events |-> searched \o <<Event("stat", providerType, TRUE, n)>>
                                     \o (IF shouldCache(adapter)
                                         THEN <<Event("store", providerType, wb.used = 0,
                                                      Len(wb.db.entities)
                                                      - Len(db.entities))>>
                                         ELSE <<>>),
                          used |-> wb.used]
                Counted(result, n, searched, stHit) ==
                    IF stHit.raised
                    THEN LoopCatch(db, providerType, searched, stHit.used, in)
                    ELSE IF n > 0
                         THEN Cached(result, n, searched,
                                     CacheResults(stHit.db, adapter, request.query, result,
                                                  in.failStore))
                    ELSE Continue(stHit.db,
                                  searched \o <<Event("stat", providerType, TRUE, 0)>>)
                Searched(result, threw, n, probed) ==
                    Counted(result, n,
                            probed \o <<Event("search", providerType, ~threw, n)>>,
                            recordProviderStats(db, providerType, Today, TRUE, 0, n, in.failStat))
                Tried(result, threw, probed) ==
                    Searched(result, threw, IF threw THEN 0 ELSE Len(result.entities),
                             probed)
            IN  IF adapter = "raise" THEN LoopCatch(db, providerType, created, 0, in)
                ELSE IF adapter # "mock" /\ ~in.available
                     THEN Down(created \o <<Event("isAvailable", providerType, FALSE, 0)>>,
                               recordProviderStats(db, providerType, Today, FALSE,
                                                   in.elapsed, 0, in.failStat))
                ELSE Tried(IF adapter = "mock" THEN MockResults[request]
                           ELSE ExternalSearch(adapter, request, in.answer),
                           adapter # "mock" /\ in.threw,
                           created \o <<Event("isAvailable", providerType, TRUE, 0)>>)
        Create(adapter) ==
            Created(adapter, <<Event("create", providerType, adapter # "raise", 0)>>)
    IN  IF providerType = "local" THEN Continue(db, <<>>)
        ELSE Create(createProvider(cfg, providerType))

NoneResult == [entities |-> <<>>, provider |-> "none", cached |-> FALSE, total_found |-> 0]

-----------------------------------------------------------------------------
(* Inputs of the provider loop and of the store *)

\* upstream answers: the first n records of the upstream ranking
Answers == {[i \in 1..n |-> i] : n \in 0..MinOf2(MaxResults, Len(Upstream))}

\* deployments (PlantSearchFactory.fromEnvironment): the default chain without
\* a Perenual key, and a caching source degrading to the mock source;
\* ftsWorks tells whether the store's engine executes the full-text statement
\* of searchLocal
Configs ==
    {[default |-> "", hasDegradation |-> FALSE, degradation |-> <<>>,
      perenualKey |-> FALSE, ftsWorks |-> FALSE],
     [default |-> "inaturalist", hasDegradation |-> TRUE,
      degradation |-> <<"local", "mock">>,
      perenualKey |-> FALSE, ftsWorks |-> TRUE]}

\* the store statements of LocalPlantSearchProvider.search that fail: at most
\* one inside the try block (the first raise leaves it), and the stat write of
\* the catch block
LocalFaultFlags ==
    {fl \in [qUpdate : BOOLEAN, qInsert : BOOLEAN, qSelect : BOOLEAN, exact : BOOLEAN,
             stat : BOOLEAN, catchStat : BOOLEAN] :
        FlagCount(fl.qUpdate) + FlagCount(fl.qInsert) + FlagCount(fl.qSelect)
        + FlagCount(fl.exact) + FlagCount(fl.stat) <= 1}

LocalFlagCount(fl) ==
    FlagCount(fl.qUpdate) + FlagCount(fl.qInsert) + FlagCount(fl.qSelect)
    + FlagCount(fl.exact) + FlagCount(fl.stat) + FlagCount(fl.catchStat)

\* the failing statements of one local search in deployment cfg
LocalFaults(fl, cfg) ==
    [qUpdate |-> fl.qUpdate, qInsert |-> fl.qInsert, qSelect |-> fl.qSelect,
     exact |-> fl.exact, fts |-> ~cfg.ftsWorks, stat |-> fl.stat,
     catchStat |-> fl.catchStat]

\* Date.now() - startTime after a probe that found the provider unavailable
ProbeTimes == {0, 5}

\* what one adapter does in one iteration (probe result, thrown search or
\* upstream answer) and the store statements that fail in that iteration (a
\* failed stat write skips the write-back)
LoopInputs ==
    {in \in [available : BOOLEAN, threw : BOOLEAN, answer : Answers,
             failStat : BOOLEAN, failCatchStat : BOOLEAN,
             failStore : 0..(1 + 2 * MaxResults), elapsed : ProbeTimes] :
        /\ ~in.available => (~in.threw /\ in.answer = <<>>)
        /\ in.available => in.elapsed = 0
        /\ in.threw => in.answer = <<>>
        /\ in.failStore <= 1 + 2 * Len(in.answer)
        /\ in.failStore > 0 => ~in.failStat}

\* the inputs one iteration on providerType reads: none when "local" is
\* skipped, the catch block's stat write when construction raises, only stat
\* writes for the mock adapter, and the catch block's stat write only after a
\* raise
InputsRead(cfg, providerType) ==
    LET adapter == createProvider(cfg, providerType)
        Quiet(in) == in.available /\ ~in.threw /\ in.answer = <<>> /\ in.failStore = 0
    IN  {in \in LoopInputs :
            /\ providerType = "local" => (Quiet(in) /\ ~in.failStat /\ ~in.failCatchStat)
            /\ adapter = "raise" => (Quiet(in) /\ ~in.failStat)
            /\ adapter = "mock" => Quiet(in)
            /\ (in.failCatchStat /\ adapter # "raise") => in.failStat}

LoopFlagCount(in) ==
    FlagCount(in.failStat) + FlagCount(in.failCatchStat) + FlagCount(in.failStore > 0)

-----------------------------------------------------------------------------
(* Address codec: generateAccessToken / parseAccessToken *)

Base64Chars == UpperChars \o LowerChars \o DigitChars \o <<"+", "/">>

\* the characters a token text can hold
TextChars == LowerChars \o UpperChars \o DigitChars
             \o <<"_", "-", "+", "/", "=", ".", " ", "|", "!">>

\* String.fromCharCode, and Buffer.toString() of one byte (anything outside
\* the characters above is shown as "?")
FromCharCode(b) ==
    IF \E i \in 1..Len(TextChars) : CharCode(TextChars[i]) = b
    THEN TextChars[CHOOSE i \in 1..Len(TextChars) : CharCode(TextChars[i]) = b]
    ELSE "?"

\* base64 of a byte sequence: three bytes to four characters, "=" padding
RECURSIVE Base64Encode(_)
Base64Encode(bytes) ==
    LET S(k) == Base64Chars[k + 1]
    IN  IF Len(bytes) = 0 THEN <<>>
        ELSE IF Len(bytes) = 1
             THEN <<S(bytes[1] \div 4), S((bytes[1] % 4) * 16), "=", "=">>
        ELSE IF Len(bytes) = 2
             THEN <<S(bytes[1] \div 4), S((bytes[1] % 4) * 16 + bytes[2] \div 16),
                    S((bytes[2] % 16) * 4), "=">>
        ELSE <<S(bytes[1] \div 4), S((bytes[1] % 4) * 16 + bytes[2] \div 16),
               S((bytes[2] % 16) * 4 + bytes[3] \div 64), S(bytes[3] % 64)>>
             \o Base64Encode(SubSeq(bytes, 4, Len(bytes)))

\* btoa(binaryString)
btoa(binary) == Base64Encode(MapSeq(binary, CharCode))

TokenPrefix == <<"p","l","a","n","t","_","s","e","a","r","c","h","_">>

\* the token text with the provider written before the id
generateAccessTokenSwapped(entityId, provider, now) ==
    LET tokenData == TokenPrefix \o provider \o <<"_">> \o ToDecimal(entityId)
                     \o <<"_">> \o ToDecimal(now)
        data      == MapSeq(tokenData, CharCode)
    IN  btoa(MapSeq(data, FromCharCode))

\* generateAccessToken(entityId, provider); now is Date.now()
generateAccessToken(entityId, provider, now) ==
    LET tokenData == TokenPrefix \o ToDecimal(entityId) \o <<"_">> \o provider
                     \o <<"_">> \o ToDecimal(now)
        data      == MapSeq(tokenData, CharCode)
    IN  btoa(MapSeq(data, FromCharCode))

\* Buffer.from(token, 'base64'): the standard and the URL-safe alphabet are
\* accepted, other characters are skipped, "=" ends the data
IsBase64Char(c) == c \in SeqRange(Base64Chars) \cup {"-", "_"}

Base64Value(c) ==
    IF c = "-" THEN 62
    ELSE IF c = "_" THEN 63
    ELSE IndexOfChar(Base64Chars, c) - 1

RECURSIVE Sextets(_)
Sextets(token) ==
    IF token = <<>> THEN <<>>
    ELSE IF Head(token) = "=" THEN <<>>
    ELSE IF IsBase64Char(Head(token))
         THEN <<Base64Value(Head(token))>> \o Sextets(Tail(token))
    ELSE Sextets(Tail(token))

RECURSIVE BytesOf(_)
BytesOf(sx) ==
    IF Len(sx) < 2 THEN <<>>
    ELSE IF Len(sx) = 2 THEN <<sx[1] * 4 + sx[2] \div 16>>
    ELSE IF Len(sx) = 3
         THEN <<sx[1] * 4 + sx[2] \div 16, (sx[2] % 16) * 16 + sx[3] \div 4>>
    ELSE <<sx[1] * 4 + sx[2] \div 16, (sx[2] % 16) * 16 + sx[3] \div 4,
           (sx[3] % 4) * 64 + sx[4]>>
         \o BytesOf(SubSeq(sx, 5, Len(sx)))

\* Buffer.from(token, 'base64').toString()
BufferFromBase64(token) == MapSeq(BytesOf(Sextets(token)), FromCharCode)

IsDigit(c) == c \in SeqRange(DigitChars)

\* length of the run of digits (\d+, greedy) starting at position p
RECURSIVE DigitRun(_, _)
DigitRun(text, p) ==
    IF p <= Len(text) /\ IsDigit(text[p]) THEN 1 + DigitRun(text, p + 1) ELSE 0

\* length of the run of non-underscore characters ([^_]+, greedy) from p
RECURSIVE NameRun(_, _)
NameRun(text, p) ==
    IF p <= Len(text) /\ text[p] # "_" THEN 1 + NameRun(text, p + 1) ELSE 0

\* parseInt of a run of digits
RECURSIVE ParseInt(_)
ParseInt(digits) ==
    IF digits = <<>> THEN 0
    ELSE 10 * ParseInt(SubSeq(digits, 1, Len(digits) - 1))
         + (IndexOfChar(DigitChars, digits[Len(digits)]) - 1)

\* /plant_search_(\d+)_([^_]+)_\d+/ tried at position s.  Each greedy run is
\* followed by a character outside its class, so no shorter run can match.
FullFormatAt(text, s) ==
    LET p1 == s + Len(TokenPrefix)
        d  == DigitRun(text, p1)
        p2 == p1 + d
        g  == NameRun(text, p2 + 1)
        p3 == p2 + 1 + g
    IN  [ok |-> /\ OccursAt(text, TokenPrefix, s)
                /\ d >= 1
                /\ p2 <= Len(text) /\ text[p2] = "_"
                /\ g >= 1
                /\ p3 <= Len(text) /\ text[p3] = "_"
                /\ DigitRun(text, p3 + 1) >= 1,
         digits |-> SubSeq(text, p1, p2 - 1),
         name |-> SubSeq(text, p2 + 1, p3 - 1)]

\* /plant_search_(\d+)_([^_]+)/ tried at position s
TruncatedFormatAt(text, s) ==
    LET p1 == s + Len(TokenPrefix)
        d  == DigitRun(text, p1)
        p2 == p1 + d
        g  == NameRun(text, p2 + 1)
    IN  [ok |-> /\ OccursAt(text, TokenPrefix, s)
                /\ d >= 1
                /\ p2 <= Len(text) /\ text[p2] = "_"
                /\ g >= 1,
         digits |-> SubSeq(text, p1, p2 - 1),
         name |-> SubSeq(text, p2 + 1, p2 + g)]

\* provider tags as text
TagLocal       == <<"l","o","c","a","l">>
TagPerenual    == <<"p","e","r","e","n","u","a","l">>
TagGbif        == <<"g","b","i","f">>
TagInaturalist == <<"i","n","a","t","u","r","a","l","i","s","t">>
TagOpenai      == <<"o","p","e","n","a","i">>
TagMock        == <<"m","o","c","k">>
TagPowo        == <<"p","o","w","o">>

\* the partial name kept as it is
InferProviderKept(partialProvider) == partialProvider

\* "Map partial names to full provider names"
InferProvider(partialProvider) ==
    IF StartsWith(partialProvider, SubSeq(TagInaturalist, 1, 5)) THEN TagInaturalist
    ELSE IF StartsWith(partialProvider, TagGbif) THEN TagGbif
    ELSE IF StartsWith(partialProvider, SubSeq(TagPerenual, 1, 5)) THEN TagPerenual
    ELSE IF StartsWith(partialProvider, TagPowo) THEN TagPowo
    ELSE IF StartsWith(partialProvider, TagLocal) THEN TagLocal
    ELSE IF StartsWith(partialProvider, TagMock) THEN TagMock
    ELSE partialProvider

NullAddress == [ok |-> FALSE, entityId |-> 0, provider |-> <<>>]

\* parseAccessToken(token): the leftmost match of the full format, else the
\* leftmost match of the truncated format, else null
parseAccessToken(token) ==
    LET Full(match) ==
            [ok |-> TRUE, entityId |-> ParseInt(match.digits), provider |-> match.name]
        Truncated(match) ==
            [ok |-> TRUE, entityId |-> ParseInt(match.digits),
             provider |-> InferProvider(match.name)]
        Match(decoded) ==
            LET starts == 1..Len(decoded)
                fulls  == {s \in starts : FullFormatAt(decoded, s).ok}
                truncs == {s \in starts : TruncatedFormatAt(decoded, s).ok}
            IN  IF fulls # {} THEN Full(FullFormatAt(decoded, MinOf(fulls)))
                ELSE IF truncs # {}
                     THEN Truncated(TruncatedFormatAt(decoded, MinOf(truncs)))
                ELSE NullAddress
    IN  Match(BufferFromBase64(token))

-----------------------------------------------------------------------------
(* The state machine: one search request at a time, served to completion *)

Db == [entities |-> entities, queries |-> queries, results |-> results, stats |-> stats]

NoResponse == [kind |-> "none", entities |-> <<>>, provider |-> "", cached |-> FALSE,
               total_found |-> 0]

Returned(result) == [kind |-> "result", entities |-> result.entities,
                     provider |-> result.provider, cached |-> result.cached,
                     total_found |-> result.total_found]

Raised == [NoResponse EXCEPT !.kind = "raise"]

\* what was seen of the request being served: the rows searchLocal found, how
\* many passed the filters, whether the local provider's try block raised,
\* whether the request repeats one just answered by a caching provider, the
\* sizes of the entity and the link table when it arrived, and the provider
\* loop's steps in order
NoObs == [localFound |-> -1, localKept |-> -1, localError |-> FALSE, localFailedAt |-> "",
          afterWriteBack |-> FALSE, rowsBefore |-> 0, linksBefore |-> 0, events |-> <<>>]

NoToken == [id |-> 0, provider |-> <<>>, partial |-> <<>>, now |-> 0, token |-> <<>>,
            parsed |-> "no", entityId |-> 0, parsedProvider |-> <<>>,
            detail |-> "no", events |-> <<>>, wrote |-> FALSE, minted |-> FALSE]

NoCall == [fn |-> "none", a |-> <<>>, b |-> <<>>, once |-> <<>>, twice |-> <<>>,
           sim |-> <<0, 1>>]

\* the requests that call recordQuery at the same time, none of them started
MaxCallers == 2

NoCallers == [c \in 1..MaxCallers |-> [at |-> "idle", query |-> <<>>, val |-> 0]]

Init ==
    /\ config \in Configs
    /\ entities = <<>>
    /\ queries = <<>>
    /\ results = <<>>
    /\ stats = <<>>
    /\ pc = "idle"
    /\ req = [query |-> <<>>, limit |-> 0, indoor |-> "undefined"]
    /\ idx = 1
    /\ obs = NoObs
    /\ response = NoResponse
    /\ nreq = 0
    /\ faults = 0
    /\ tok = NoToken
    /\ calc = NoCall
    /\ callers = NoCallers

SetDb(db) ==
    /\ entities' = db.entities
    /\ queries' = db.queries
    /\ results' = db.results
    /\ stats' = db.stats

\* a search request arrives
StartSearch ==
    /\ pc \in {"idle", "done"}
    /\ nreq < MaxRequests
    /\ \E r \in Requests :
         /\ req' = r
         /\ obs' = [NoObs EXCEPT !.rowsBefore = Len(entities),
                                 !.linksBefore = Len(results),
                                 !.afterWriteBack =
                                     /\ r = req
                                     /\ response.kind = "result"
                                     /\ shouldCache(response.provider)
                                     /\ Len(response.entities) > 0]
    /\ pc' = "local"
    /\ idx' = 1
    /\ response' = NoResponse
    /\ nreq' = nreq + 1
    /\ UNCHANGED <<config, entities, queries, results, stats, faults, tok, calc, callers>>

\* search(): tryProvider(localProvider); results are returned immediately
LocalFirst ==
    /\ pc = "local"
    /\ \E fl \in LocalFaultFlags :
         /\ LocalFlagCount(fl) <= MaxFaults - faults
         /\ \E out \in {LocalSearch(Db, req, LocalFaults(fl, config))} :
                /\ SetDb(out.db)
                /\ faults' = faults + out.used
                /\ obs' = [obs EXCEPT !.localFound = out.found, !.localKept = out.kept,
                                       !.localError = out.error,
                                       !.localFailedAt = out.failedAt,
                                       !.events = out.stat]
                /\ IF ~out.raised /\ Len(out.result.entities) > 0
                   THEN /\ response' = Returned(out.result)
                        /\ pc' = "done"
                   ELSE /\ response' = response
                        /\ pc' = "loop"
    /\ UNCHANGED <<config, req, idx, nreq, tok, calc, callers>>

\* search(): one iteration of the loop over providersToTry
TryNextProvider ==
    /\ pc = "loop"
    /\ idx <= Len(providersToTry(config))
    /\ \E in \in InputsRead(config, providersToTry(config)[idx]) :
         /\ LoopFlagCount(in) <= MaxFaults - faults
         /\ \E out \in {TryProviderType(Db, config, req, providersToTry(config)[idx], in)} :
                /\ SetDb(out.db)
                /\ faults' = faults + out.used
                /\ obs' = [obs EXCEPT !.events = @ \o out.events]
                /\ IF out.next = "return"
                   THEN response' = Returned(out.result) /\ pc' = "done" /\ idx' = idx
                   ELSE IF out.next = "raise"
                   THEN response' = Raised /\ pc' = "done" /\ idx' = idx
                   ELSE response' = response /\ pc' = "loop" /\ idx' = idx + 1
    /\ UNCHANGED <<config, req, nreq, tok, calc, callers>>

\* search(): all providers exhausted
Exhausted ==
    /\ pc = "loop"
    /\ idx > Len(providersToTry(config))
    /\ response' = Returned(NoneResult)
    /\ pc' = "done"
    /\ UNCHANGED <<config, entities, queries, results, stats, req, idx, obs, nreq, faults, tok, calc, callers>>

Next == StartSearch \/ LocalFirst \/ TryNextProvider \/ Exhausted

Spec == Init /\ [][Next]_vars

-----------------------------------------------------------------------------
(* Searches without a filter: written-back rows are served from the store *)

\* a search request without a filter arrives
StartPlainSearch ==
    /\ pc \in {"idle", "done"}
    /\ nreq < MaxRequests
    /\ \E r \in PlainRequests :
         /\ req' = r
         /\ obs' = [NoObs EXCEPT !.rowsBefore = Len(entities),
                                 !.linksBefore = Len(results),
                                 !.afterWriteBack =
                                     /\ r = req
                                     /\ response.kind = "result"
                                     /\ shouldCache(response.provider)
                                     /\ Len(response.entities) > 0]
    /\ pc' = "local"
    /\ idx' = 1
    /\ response' = NoResponse
    /\ nreq' = nreq + 1
    /\ UNCHANGED <<config, entities, queries, results, stats, faults, tok, calc, callers>>

NextCache == StartPlainSearch \/ LocalFirst \/ TryNextProvider \/ Exhausted

SpecCache == Init /\ [][NextCache]_vars

-----------------------------------------------------------------------------
(* The address codec on its own: an address is minted, then parsed *)

MaxEntityId == 11
MaxNow      == 10

ProviderTags == {TagLocal, TagPerenual, TagGbif, TagInaturalist, TagOpenai, TagMock, TagPowo}

\* an adapter mints the address of entity id under a provider tag
Generate ==
    /\ tok = NoToken
    /\ \E id \in 0..MaxEntityId, tag \in ProviderTags, now \in 0..MaxNow :
         tok' = [NoToken EXCEPT !.id = id, !.provider = tag, !.now = now,
                                !.token = generateAccessToken(id, tag, now)]
    /\ UNCHANGED <<config, entities, queries, results, stats, pc, req, idx, obs,
                   response, nreq, faults, calc, callers>>

\* a detail request parses the address
Parse ==
    /\ tok.token # <<>>
    /\ tok.parsed = "no"
    /\ \E info \in {parseAccessToken(tok.token)} :
           tok' = [tok EXCEPT !.parsed = IF info.ok THEN "ok" ELSE "null",
                              !.entityId = info.entityId,
                              !.parsedProvider = info.provider]
    /\ UNCHANGED <<config, entities, queries, results, stats, pc, req, idx, obs,
                   response, nreq, faults, calc, callers>>

NextToken == Generate \/ Parse

SpecToken == Init /\ [][NextToken]_vars

\* a truncated address of the earlier token format: the base64 text of
\* plant_search_<id>_<p>, where <p> is the beginning of a provider tag,
\* possibly followed by one more character
TruncatedTails == {<<>>, <<"x">>}

GenerateTruncated ==
    /\ tok = NoToken
    /\ \E id \in 0..MaxEntityId, tag \in ProviderTags, tail \in TruncatedTails :
         \E k \in 1..Len(tag) :
            tok' = [NoToken EXCEPT
                       !.id = id, !.provider = tag,
                       !.partial = Slice(tag, k) \o tail,
                       !.token = btoa(TokenPrefix \o ToDecimal(id) \o <<"_">>
                                      \o Slice(tag, k) \o tail)]
    /\ UNCHANGED <<config, entities, queries, results, stats, pc, req, idx, obs,
                   response, nreq, faults, calc, callers>>

NextLegacy == GenerateTruncated \/ Parse

SpecLegacy == Init /\ [][NextLegacy]_vars

-----------------------------------------------------------------------------
(* The Entity Store on its own: write-backs and lookups in any order *)

MaxWriteBacks == 2
MaxLimit      == 2

CachingAdapters == {a \in ProviderTypes : shouldCache(a)}

\* LocalPlantSearchProvider.storeExternalResults with some caching adapter's
\* non-empty result for some query
WriteBack ==
    /\ nreq < MaxWriteBacks
    /\ \E adapter \in CachingAdapters, q \in SearchTexts, a \in Answers,
          failAt \in 0..(1 + 2 * MaxResults) :
         /\ a # <<>>
         /\ failAt <= 1 + 2 * Len(a)
         /\ FlagCount(failAt > 0) <= MaxFaults - faults
         /\ \E wb \in {storeExternalResults(
                            Db, q,
                            ExternalSearch(adapter,
                                           [query |-> q, limit |-> MaxLimit,
                                            indoor |-> NoFilter], a),
                            failAt)} :
                /\ SetDb(wb.db)
                /\ faults' = faults + wb.used
    /\ nreq' = nreq + 1
    /\ UNCHANGED <<config, pc, req, idx, obs, response, tok, calc, callers>>

\* PlantSearchDatabase.searchLocal(query, limit)
Lookup ==
    /\ \E q \in SearchTexts, limit \in 1..MaxLimit :
         \E sl \in {searchLocal(Db, q, limit, FALSE, ~config.ftsWorks)} :
             /\ req' = [query |-> q, limit |-> limit, indoor |-> NoFilter]
             /\ response' = [NoResponse EXCEPT
                                !.kind = IF sl.raised THEN "raise" ELSE "lookup",
                                !.entities = IF sl.raised THEN <<>> ELSE sl.val]
    /\ UNCHANGED <<config, entities, queries, results, stats, pc, idx, obs, nreq, faults, tok, calc, callers>>

NextStore == WriteBack \/ Lookup

SpecStore == Init /\ [][NextStore]_vars

-----------------------------------------------------------------------------
(* The detail path: PlantSearchFactory.getDetails *)

\* the provider type a decoded tag names (the tag is passed on as it is)
TypeName(tag) ==
    IF tag = TagLocal THEN "local"
    ELSE IF tag = TagPerenual THEN "perenual"
    ELSE IF tag = TagGbif THEN "gbif"
    ELSE IF tag = TagInaturalist THEN "inaturalist"
    ELSE IF tag = TagOpenai THEN "openai"
    ELSE IF tag = TagMock THEN "mock"
    ELSE "unknown"

\* the tag an adapter mints its addresses under
TagOf(type) ==
    IF type = "local" THEN TagLocal
    ELSE IF type = "perenual" THEN TagPerenual
    ELSE IF type = "gbif" THEN TagGbif
    ELSE IF type = "inaturalist" THEN TagInaturalist
    ELSE IF type = "openai" THEN TagOpenai
    ELSE TagMock

\* the adapter classes that implement the optional getDetails
HasGetDetails(adapter) == adapter = "local"

\* LocalPlantSearchProvider.convertDbRowToEntity
convertDbRowToEntity(row) ==
    [entity_name |-> row.entity_name,
     common_names |-> row.common_names,
     synonyms |-> row.synonyms,
     provider_source |-> row.provider_source,
     provider_id |-> row.provider_id,
     has_characteristics |-> row.has_characteristics,
     indoor |-> row.indoor]

\* LocalPlantSearchProvider.getDetails: the first row with the decoded
\* provider_id and provider_source; null (the empty sequence) when the address
\* does not decode, no row matches or the statement fails
LocalGetDetails(db, accessToken, fail) ==
    LET Hits(tokenInfo) ==
            {i \in 1..Len(db.entities) :
                /\ db.entities[i].provider_id = ToDecimal(tokenInfo.entityId)
                /\ db.entities[i].provider_source = TypeName(tokenInfo.provider)}
        First(hits) ==
            IF hits = {} THEN <<>> ELSE <<convertDbRowToEntity(db.entities[MinOf(hits)])>>
        Selected(tokenInfo) ==
            IF ~tokenInfo.ok \/ fail THEN <<>> ELSE First(Hits(tokenInfo))
    IN  Selected(parseAccessToken(accessToken))

\* tryProviderDetails: the adapter's answer, null when it has no getDetails
\* or its getDetails throws
tryProviderDetails(adapter, db, accessToken, fail) ==
    IF ~HasGetDetails(adapter) THEN <<>>
    ELSE LocalGetDetails(db, accessToken, fail)

\* the list in the opposite order
FallbackProvidersReversed == <<"perenual", "gbif", "inaturalist">>

\* "try other providers that support details"
FallbackProviders == <<"inaturalist", "gbif", "perenual">>

DetailAnswer(found, events, db, used) ==
    [found |-> found, events |-> events, db |-> db, used |-> used]

\* the fallback loop from position i; tried is the decoded tag's type
RECURSIVE FallbackDetails(_, _, _, _, _, _, _)
FallbackDetails(db, cfg, accessToken, tried, i, events, used) ==
    IF i > Len(FallbackProviders) THEN DetailAnswer(<<>>, events, db, used)
    ELSE IF FallbackProviders[i] = tried
    THEN FallbackDetails(db, cfg, accessToken, tried, i + 1, events, used)
    ELSE LET Asked(adapter, result) ==
                 IF result # <<>>
                 THEN DetailAnswer(result,
                                   Append(events,
                                          Event("getDetails", FallbackProviders[i], TRUE, 1)),
                                   db, used)
                 ELSE FallbackDetails(db, cfg, accessToken, tried, i + 1,
                                      Append(events,
                                             Event("getDetails", FallbackProviders[i],
                                                   FALSE, 0)),
                                      used)
             Created(adapter) ==
                 IF adapter = "raise" \/ ~HasGetDetails(adapter)
                 THEN FallbackDetails(db, cfg, accessToken, tried, i + 1,
                                      Append(events,
                                             Event("create", FallbackProviders[i],
                                                   adapter # "raise", 0)),
                                      used)
                 ELSE Asked(adapter, tryProviderDetails(adapter, db, accessToken, FALSE))
         IN  Created(createProvider(cfg, FallbackProviders[i]))

\* no decode result is taken for null
IsNullIgnored(tokenInfo) == FALSE

\* if (!tokenInfo)
IsNull(tokenInfo) == ~tokenInfo.ok

\* PlantSearchFactory.getDetails(accessToken): failSelect makes the adapter's
\* read fail, failAt the statement of the write-back that fails (0: none)
getDetails(db, cfg, accessToken, failSelect, failAt) ==
    LET Fallback(tokenInfo, events, used) ==
            FallbackDetails(db, cfg, accessToken, TypeName(tokenInfo.provider), 1,
                            events, used)
        Cached(tokenInfo, result, wb) ==
            DetailAnswer(result,
                         <<Event("getDetails", TypeName(tokenInfo.provider), TRUE, 1),
                           Event("store", TypeName(tokenInfo.provider), ~wb.raised, 1)>>,
                         wb.db, FlagCount(failSelect) + wb.used)
        Asked(tokenInfo, adapter, result) ==
            IF result = <<>>
            THEN Fallback(tokenInfo,
                          <<Event("getDetails", TypeName(tokenInfo.provider), FALSE, 0)>>,
                          FlagCount(failSelect))
            ELSE IF shouldCache(adapter)
            THEN Cached(tokenInfo, result,
                        storeExternalResults(
                            db, result[1].entity_name,
                            [entities |-> result, provider |-> TypeName(tokenInfo.provider),
                             cached |-> FALSE, total_found |-> 1],
                            failAt))
            ELSE DetailAnswer(result,
                              <<Event("getDetails", TypeName(tokenInfo.provider), TRUE, 1)>>,
                              db, FlagCount(failSelect))
        Created(tokenInfo, adapter) ==
            IF adapter = "raise" \/ ~HasGetDetails(adapter)
            THEN Fallback(tokenInfo,
                          <<Event("create", TypeName(tokenInfo.provider),
                                  adapter # "raise", 0)>>,
                          0)
            ELSE Asked(tokenInfo, adapter,
                       tryProviderDetails(adapter, db, accessToken, failSelect))
        Decoded(tokenInfo) ==
            IF IsNull(tokenInfo) THEN DetailAnswer(<<>>, <<>>, db, 0)
            ELSE Created(tokenInfo, createProvider(cfg, TypeName(tokenInfo.provider)))
    IN  Decoded(parseAccessToken(accessToken))

\* addresses a client may send that are not of either format
TestToken      == <<"t","e","s","t","-","t","o","k","e","n">>
NoIdToken      == btoa(TokenPrefix \o <<"x","_","g","b","i","f","_","1">>)
NoTagToken     == btoa(TokenPrefix \o <<"7">>)
OtherTextToken == btoa(<<"h","e","l","l","o">>)
MalformedTokens == {<<>>, TestToken, NoIdToken, NoTagToken, OtherTextToken}

DetailIds == {1, 7}
DetailNows == {0, MaxNow}

\* the addresses of the detail requests: malformed ones and well-formed ones
\* under every tag
DetailTokens ==
    MalformedTokens
    \cup {generateAccessToken(id, tag, 0) : id \in DetailIds, tag \in ProviderTags}

\* what a detail request showed: the address, whether a search minted it,
\* the answer, the providers created or asked in order, whether the store changed
Detailed(token, minted, out) ==
    tok' = [NoToken EXCEPT !.token = token,
                           !.minted = minted,
                           !.detail = IF out.found = <<>> THEN "null" ELSE "found",
                           !.events = out.events,
                           !.wrote = out.db # Db]

\* GET details with an address of the client's choice
GetDetails ==
    /\ tok = NoToken
    /\ \E token \in DetailTokens, failSelect \in BOOLEAN :
         /\ FlagCount(failSelect) <= MaxFaults - faults
         /\ \E out \in {getDetails(Db, config, token, failSelect, 0)} :
                /\ Detailed(token, FALSE, out)
                /\ SetDb(out.db)
                /\ faults' = faults + out.used
    /\ UNCHANGED <<config, pc, req, idx, obs, response, nreq, calc, callers>>

\* the first write-back into the empty store
FirstWriteBack ==
    /\ entities = <<>>
    /\ WriteBack

NextDetails == FirstWriteBack \/ GetDetails

SpecDetails == Init /\ [][NextDetails]_vars

\* GET details with the address of an entity of the search just answered
DetailsOfResult ==
    /\ pc = "done"
    /\ response.kind = "result"
    /\ \E i \in 1..Len(response.entities), now \in DetailNows :
         \E token \in {generateAccessToken(response.entities[i].token_id,
                                           TagOf(response.entities[i].token_provider),
                                           now)} :
           \E out \in {getDetails(Db, config, token, FALSE, 0)} :
                /\ Detailed(token, TRUE, out)
                /\ SetDb(out.db)
    /\ UNCHANGED <<config, pc, req, idx, obs, response, nreq, faults, calc, callers>>

NextProtocol == StartSearch \/ LocalFirst \/ TryNextProvider \/ Exhausted \/ DetailsOfResult

SpecProtocol == Init /\ [][NextProtocol]_vars

-----------------------------------------------------------------------------
(* The text functions on their own *)

MaxQueryLen == 4
MaxNameLen  == 3

QueryChars == {"a", "B", " ", "!"}

\* all strings of at most n characters
Texts(n) == UNION {[1..k -> QueryChars] : k \in 0..n}

\* a run of k letters
Letters(k) == [i \in 1..k |-> "a"]

\* lengths of the run put before the text: none, or enough to pass the cut
PadLengths == {0, QueryMaxLen - 2}

\* normalizeQuery applied to a query text, and again to its own result
Normalize ==
    /\ calc = NoCall
    /\ \E x \in Texts(MaxQueryLen), k \in PadLengths :
         \E once \in {normalizeQuery(Letters(k) \o x)} :
            calc' = [NoCall EXCEPT !.fn = "normalizeQuery",
                                   !.a = Letters(k) \o x,
                                   !.once = once,
                                   !.twice = normalizeQuery(once)]
    /\ UNCHANGED <<config, entities, queries, results, stats, pc, req, idx, obs, response,
                   nreq, faults, tok, callers>>

NextNormalize == Normalize

SpecNormalize == Init /\ [][NextNormalize]_vars

\* calculateSimilarity applied to a query text and a name
Similarity ==
    /\ calc = NoCall
    /\ \E query \in Texts(MaxNameLen), target \in Texts(MaxNameLen) :
         calc' = [NoCall EXCEPT !.fn = "calculateSimilarity",
                                !.a = query,
                                !.b = target,
                                !.sim = calculateSimilarity(query, target)]
    /\ UNCHANGED <<config, entities, queries, results, stats, pc, req, idx, obs, response,
                   nreq, faults, tok, callers>>

NextSimilarity == Similarity

SpecSimilarity == Init /\ [][NextSimilarity]_vars

-----------------------------------------------------------------------------
(* The statistics table on its own *)

MaxStatCalls == 3

StatProviders == {"local", "gbif"}
StatDates     == {Today, "tomorrow"}
StatTimes     == {10, 30}
StatCounts    == {0, 2}

\* one recordProviderStats call; calc keeps its arguments
RecordStats ==
    /\ nreq < MaxStatCalls
    /\ \E provider \in StatProviders, today \in StatDates, success \in BOOLEAN,
          responseTimeMs \in StatTimes, resultsCount \in StatCounts :
         /\ \E st \in {recordProviderStats(Db, provider, today, success, responseTimeMs,
                                            resultsCount, FALSE)} :
                SetDb(st.db)
         /\ calc' = [NoCall EXCEPT !.fn = "recordProviderStats",
                                   !.a = <<provider, today>>,
                                   !.b = <<SuccessCount(success), responseTimeMs,
                                           resultsCount>>]
    /\ nreq' = nreq + 1
    /\ UNCHANGED <<config, pc, req, idx, obs, response, faults, tok, callers>>

NextStats == RecordStats

SpecStats == Init /\ [][NextStats]_vars

-----------------------------------------------------------------------------
(* The query table on its own *)

MaxQueryCalls == 3

\* one recordQuery call; calc keeps the raw text and the id returned
RecordQuery ==
    /\ nreq < MaxQueryCalls
    /\ \E query \in RecordTexts :
         \E st \in {recordQuery(Db, query, FALSE, FALSE, FALSE)} :
            /\ SetDb(st.db)
            /\ calc' = [NoCall EXCEPT !.fn = "recordQuery", !.a = query, !.b = st.val]
    /\ nreq' = nreq + 1
    /\ UNCHANGED <<config, pc, req, idx, obs, response, faults, tok, callers>>

NextQueries == RecordQuery

SpecQueries == Init /\ [][NextQueries]_vars

-----------------------------------------------------------------------------
(* Concurrent requests in recordQuery: every await is a point where another  *)
(* request's statement may run                                               *)

\* the texts of the concurrent requests: two spellings of one query, and
\* another query
ConcurrentTexts == {Ficus, FicusLoud, Lyrta}

\* a request enters recordQuery
CallRecordQuery ==
    /\ \E c \in 1..MaxCallers, query \in ConcurrentTexts :
         /\ callers[c].at = "idle"
         /\ callers' = [callers EXCEPT ![c] = [at |-> "update", query |-> query, val |-> 0]]
    /\ UNCHANGED <<config, entities, queries, results, stats, pc, req, idx, obs, response,
                   nreq, faults, tok, calc>>

\* await updateStmt.bind(hash).run(), then the test of meta.changes
RunUpdate ==
    /\ \E c \in 1..MaxCallers :
         /\ callers[c].at = "update"
         /\ \E st \in {UpdateQueryCount(Db, Hashed[callers[c].query])} :
                /\ SetDb(st.db)
                /\ callers' = [callers EXCEPT
                                  ![c].at = IF st.val = 0 THEN "insert" ELSE "select"]
    /\ UNCHANGED <<config, pc, req, idx, obs, response, nreq, faults, tok, calc>>

\* await insertStmt.bind(query, normalized, hash).run(); return last_row_id
RunInsert ==
    /\ \E c \in 1..MaxCallers :
         /\ callers[c].at = "insert"
         /\ \E st \in {InsertQuery(Db, callers[c].query)} :
                /\ SetDb(st.db)
                /\ callers' = [callers EXCEPT ![c].at = "done", ![c].val = st.val]
    /\ UNCHANGED <<config, pc, req, idx, obs, response, nreq, faults, tok, calc>>

\* await getStmt.bind(hash).first(); return existing?.id || 0
RunSelect ==
    /\ \E c \in 1..MaxCallers :
         /\ callers[c].at = "select"
         /\ \E st \in {SelectQueryId(Db, Hashed[callers[c].query])} :
                callers' = [callers EXCEPT ![c].at = "done", ![c].val = st.val]
    /\ UNCHANGED <<config, entities, queries, results, stats, pc, req, idx, obs, response,
                   nreq, faults, tok, calc>>

NextConcurrent == CallRecordQuery \/ RunUpdate \/ RunInsert \/ RunSelect

SpecConcurrent == Init /\ [][NextConcurrent]_vars

TypeOK == pc \in {"idle", "local", "loop", "done"}

-----------------------------------------------------------------------------
(* What a served request shows *)

Chain == providersToTry(config)

IsExternal(e) == e.p # "local"

\* the steps of the provider loop, in order (the local provider's stat left out)
ExternalEvents == SelectSeq(obs.events, IsExternal)

\* position of a provider type in the configured chain
Pos(p) == CHOOSE k \in 1..Len(Chain) : Chain[k] = p

LocalAnswer == response.kind = "result" /\ response.provider = "local" /\ response.cached

\* some provider's search returned at least one entity
SomeHit == \E i \in 1..Len(ExternalEvents) :
              ExternalEvents[i].op = "search" /\ ExternalEvents[i].n > 0

\* the search of the k-th chain member returned at least one entity
HitAt(k) == \E i \in 1..Len(ExternalEvents) :
               /\ ExternalEvents[i].op = "search"
               /\ ExternalEvents[i].p = Chain[k]
               /\ ExternalEvents[i].n > 0

\* the k-th chain member was unavailable or returned an empty result
EmptyOrDown(k) == \E i \in 1..Len(ExternalEvents) :
                     /\ ExternalEvents[i].p = Chain[k]
                     /\ \/ ExternalEvents[i].op = "isAvailable" /\ ~ExternalEvents[i].ok
                        \/ ExternalEvents[i].op = "search" /\ ExternalEvents[i].ok
                           /\ ExternalEvents[i].n = 0

\* the stat records written for the k-th chain member during the request
StatsOf(k) ==
    LET Mine(e) == e.op = "stat" /\ e.p = Chain[k]
    IN  SelectSeq(ExternalEvents, Mine)

-----------------------------------------------------------------------------
(* Claims about PlantSearchFactory.search *)

\* C1: cache precedence.  Whenever searchLocal found at least one stored
\* entity for the request's query, search returns the local result
\* (provider "local", cached = true) and no external provider is created,
\* probed or searched during that request.
C1_CachePrecedence ==
    obs.localFound >= 1 =>
        /\ pc = "done"
        /\ LocalAnswer
        /\ ExternalEvents = <<>>

\* C2: cache write-back.  A search that repeats the query of the search just
\* answered by a caching provider with at least one entity returns
\* cached = true from provider "local" and invokes no external adapter.
C2_WriteBackServesNext ==
    (obs.afterWriteBack /\ pc \in {"loop", "done"}) =>
        /\ pc = "done"
        /\ LocalAnswer
        /\ ExternalEvents = <<>>

\* C3: degradation completeness.  On a cache miss where every provider before
\* the k-th was unavailable or empty and the k-th returned at least one
\* entity, search returns the k-th provider's entities, one successful stat is
\* recorded for it, one failed or empty stat for each earlier provider, and no
\* other external-provider stat.
C3_DegradationCompleteness ==
    \A k \in 1..Len(Chain) :
        ( /\ pc = "done"
          /\ ~LocalAnswer
          /\ Chain[k] # "local"
          /\ HitAt(k)
          /\ \A j \in 1..(k - 1) : Chain[j] = "local" \/ EmptyOrDown(j) )
        =>
        ( /\ response.kind = "result"
          /\ response.provider = Chain[k]
          /\ Len(response.entities) > 0
          /\ Len(StatsOf(k)) = 1
          /\ StatsOf(k)[1].ok /\ StatsOf(k)[1].n = Len(response.entities)
          /\ \A j \in 1..(k - 1) :
                Chain[j] # "local" =>
                    /\ Len(StatsOf(j)) = 1
                    /\ (~StatsOf(j)[1].ok \/ StatsOf(j)[1].n = 0)
          /\ \A j \in (k + 1)..Len(Chain) : StatsOf(j) = <<>> )

\* C4: strict sequential order, first success wins.  The loop's steps follow
\* the configured chain in order with "local" skipped, no chain member is
\* passed over, and after a provider's search returned at least one entity no
\* later provider is created, probed, searched or given a stat record.
C4_SequentialFirstSuccess ==
    \A i \in 1..Len(ExternalEvents) :
        /\ \A j \in 1..(i - 1) : Pos(ExternalEvents[j].p) <= Pos(ExternalEvents[i].p)
        /\ \A k \in 1..(Pos(ExternalEvents[i].p) - 1) :
              Chain[k] = "local" \/ \E j \in 1..(i - 1) : ExternalEvents[j].p = Chain[k]
        /\ (ExternalEvents[i].op = "search" /\ ExternalEvents[i].n > 0) =>
              \A j \in (i + 1)..Len(ExternalEvents) : ExternalEvents[j].p = ExternalEvents[i].p

\* C5: no outright failure while a source can answer.  Whatever fails in other
\* sources or in the store's write path, search does not raise to its caller,
\* and when the cache or some provider of the chain returned at least one
\* entity for the request the result returned is not empty.
C5_NoOutrightFailure ==
    pc = "done" =>
        /\ response.kind # "raise"
        /\ (obs.localKept >= 1 \/ SomeHit) =>
              (response.kind = "result" /\ Len(response.entities) > 0)

\* C6: best-effort cache write.  When the write-back of a provider's result
\* fails at the query record, an entity insert or a result link, search
\* returns that provider's result unchanged: it neither raises nor goes on to
\* another provider.
C6_BestEffortCacheWrite ==
    \A i \in 1..Len(ExternalEvents) :
        (ExternalEvents[i].op = "store" /\ ~ExternalEvents[i].ok) =>
            /\ i = Len(ExternalEvents)
            /\ pc = "done"
            /\ response.kind = "result"
            /\ response.provider = ExternalEvents[i].p
            /\ ~response.cached
            /\ ExternalEvents[i - 1] = Event("stat", response.provider, TRUE,
                                             Len(response.entities))
            /\ \E a \in Answers :
                  /\ a # <<>>
                  /\ response.entities =
                        ExternalSearch(response.provider, req, a).entities

\* a request was answered by a provider whose write-back failed after the
\* entity row had been inserted
C6_Witness ==
    /\ pc = "done"
    /\ response.kind = "result"
    /\ \E i \in 1..Len(ExternalEvents) :
          /\ ExternalEvents[i].op = "store"
          /\ ~ExternalEvents[i].ok
          /\ ExternalEvents[i].n > 0

\* C7: exhaustion.  When the cache yields no entity and no provider of the
\* chain returns one, search returns entities = [], provider "none",
\* cached = false, total_found = 0, and the request adds no entity row.
C7_Exhaustion ==
    (pc = "done" /\ obs.localKept < 1 /\ ~SomeHit) =>
        /\ response = Returned(NoneResult)
        /\ Len(entities) = obs.rowsBefore

\* C8: entity upsert is idempotent on (entityName, providerSource): the
\* entity table holds at most one row per (entity_name, provider_source).
C8_UpsertIdempotent ==
    \A i, j \in 1..Len(entities) :
        ( /\ entities[i].entity_name = entities[j].entity_name
          /\ entities[i].provider_source = entities[j].provider_source )
        => i = j

-----------------------------------------------------------------------------
(* Claims about the Entity Store *)

\* the identity of a returned entity: (providerSource, providerId) when the
\* provider id is present, else (providerSource, entityName)
Identity(e) ==
    IF e.provider_id # <<>> THEN <<e.provider_source, "id", e.provider_id>>
    ELSE <<e.provider_source, "name", e.entity_name>>

\* C9: searchLocal consistency.  Whatever write-backs came before and for
\* every limit >= 1, a searchLocal call returns at most limit entities and no
\* two of them share an identity.
C9_SearchLocalConsistency ==
    response.kind = "lookup" =>
        /\ Len(response.entities) <= req.limit
        /\ \A i, j \in 1..Len(response.entities) :
              Identity(response.entities[i]) = Identity(response.entities[j]) => i = j

-----------------------------------------------------------------------------
(* Claims about the address codec *)

\* C10: address round-trip.  For every non-negative integer id and every
\* provider tag, parsing the address generateAccessToken(id, tag) minted
\* gives a non-null result whose entityId is id and whose provider is tag.
C10_AddressRoundTrip ==
    tok.parsed # "no" =>
        /\ tok.parsed = "ok"
        /\ tok.entityId = tok.id
        /\ tok.parsedProvider = tok.provider

\* a two-digit id minted under the longest tag has been parsed
C10_Witness ==
    /\ tok.parsed = "ok"
    /\ tok.id >= 10
    /\ tok.provider = TagInaturalist

\* the tag a known prefix stands for, <<>> when the partial name starts with
\* none of inatu, gbif, peren, powo, local, mock
KnownTag(partial) ==
    LET known == {t \in {TagInaturalist, TagGbif, TagPerenual, TagPowo, TagLocal, TagMock} :
                     /\ Len(partial) >= MinOf2(5, Len(t))
                     /\ SubSeq(partial, 1, MinOf2(5, Len(t))) = SubSeq(t, 1, MinOf2(5, Len(t)))}
    IN  IF known = {} THEN <<>> ELSE CHOOSE t \in known : TRUE

\* C11: legacy address tolerance.  A truncated token whose decoded text is
\* plant_search_<id>_<p>, with <p> starting with one of the known prefixes
\* inatu, gbif, peren, powo, local, mock, decodes to entityId = id and the
\* full tag the prefix stands for.
C11_LegacyTolerance ==
    (tok.parsed # "no" /\ KnownTag(tok.partial) # <<>>) =>
        /\ tok.parsed = "ok"
        /\ tok.entityId = tok.id
        /\ tok.parsedProvider = KnownTag(tok.partial)

\* the five-letter beginning of the longest tag, under a two-digit id, has
\* been parsed
C11_Witness ==
    /\ tok.parsed = "ok"
    /\ tok.id >= 10
    /\ tok.partial = SubSeq(TagInaturalist, 1, 5)
    /\ tok.parsedProvider = TagInaturalist

\* C12: unknown prefixes decode to null.  For a truncated token whose
\* provider part starts with none of the known prefixes, parseAccessToken
\* returns null.
C12_UnknownPrefixNull ==
    (tok.parsed # "no" /\ tok.partial # <<>> /\ KnownTag(tok.partial) = <<>>) =>
        tok.parsed = "null"


-----------------------------------------------------------------------------
(* What a detail request shows *)

\* PlantDetail.handle: 404 when getDetails returns null, else the entity
DetailStatus(detail) == IF detail = "found" THEN 200 ELSE 404

NotStore(e) == e.op # "store"

\* the provider types created or asked, in order
AskedTypes == MapSeq(SelectSeq(tok.events, NotStore), LAMBDA e : e.p)

IsPrefix(s, t) == Len(s) <= Len(t) /\ s = SubSeq(t, 1, Len(s))

\* C13: when the address of a detail request does not decode, getDetails
\* returns null, no provider is created or asked, and the store is untouched
C13_MalformedNotFound ==
    (tok.detail # "no" /\ ~parseAccessToken(tok.token).ok) =>
        /\ tok.detail = "null"
        /\ tok.events = <<>>
        /\ ~tok.wrote

C13_Witness ==
    /\ tok.detail = "null"
    /\ tok.token = NoIdToken
    /\ tok.events = <<>>
    /\ Len(entities) > 0

\* C14: when the address decodes, the provider of the decoded tag is tried
\* first, then inaturalist, gbif, perenual in that order without the one
\* already tried; a null answer means all of them were tried, a found answer
\* ends the attempts at the first provider that found the entity
C14_FallbackOrder ==
    (tok.detail # "no" /\ parseAccessToken(tok.token).ok) =>
        LET tried    == TypeName(parseAccessToken(tok.token).provider)
            expected == <<tried>> \o SelectSeq(<<"inaturalist", "gbif", "perenual">>,
                                               LAMBDA p : p # tried)
            attempts == SelectSeq(tok.events, NotStore)
        IN  /\ tok.detail = "null" =>
                  /\ AskedTypes = expected
                  /\ \A i \in 1..Len(attempts) : attempts[i].n = 0
            /\ tok.detail = "found" =>
                  /\ IsPrefix(AskedTypes, expected)
                  /\ attempts # <<>>
                  /\ attempts[Len(attempts)].n = 1
                  /\ \A i \in 1..(Len(attempts) - 1) : attempts[i].n = 0

C14_Witness ==
    /\ tok.detail = "null"
    /\ tok.token = generateAccessToken(7, TagGbif, 0)
    /\ AskedTypes = <<"gbif", "inaturalist", "perenual">>
    /\ Len(entities) > 0

\* C15: a detail request with the address of an entity that a search just
\* returned is answered with the entity (HTTP 200)
C15_SearchThenDetails ==
    (tok.minted /\ tok.detail # "no") => DetailStatus(tok.detail) = 200


-----------------------------------------------------------------------------
(* What a call of a text function shows *)

\* C16: normalizing a normalized query text gives the same text again
C16_NormalizeIdempotent ==
    calc.fn = "normalizeQuery" => calc.twice = calc.once

\* C17: a similarity score lies between 0 and 1, and a non-empty text scores
\* exactly 1 against itself
C17_SimilarityBounded ==
    calc.fn = "calculateSimilarity" =>
        /\ calc.sim[2] > 0
        /\ 0 <= calc.sim[1]
        /\ calc.sim[1] <= calc.sim[2]
        /\ (calc.a = calc.b /\ calc.a # <<>>) => calc.sim[1] = calc.sim[2]

C17_Witness ==
    /\ calc.fn = "calculateSimilarity"
    /\ calc.a = <<"a", " ", "B">>
    /\ calc.b = calc.a
    /\ calc.sim[1] = calc.sim[2]


-----------------------------------------------------------------------------
(* What the statistics table shows *)

\* the rows of a statistics table for a provider and a date
StatRows(table, key) ==
    SelectSeq(table, LAMBDA r : r.provider_name = key[1] /\ r.search_date = key[2])

\* C18: the statistics table never holds two rows for one (provider_name,
\* search_date), every row has total_requests = successful_requests +
\* failed_requests, and each call adds 1 to total_requests and to exactly one
\* of successful_requests and failed_requests of the one row of its key
C18_StatsRowInvariant ==
    /\ [](/\ \A i, j \in 1..Len(stats) :
               (/\ stats[i].provider_name = stats[j].provider_name
                /\ stats[i].search_date = stats[j].search_date) => i = j
          /\ \A i \in 1..Len(stats) :
               stats[i].total_requests
                   = stats[i].successful_requests + stats[i].failed_requests)
    /\ [][calc'.fn = "recordProviderStats" =>
            LET before == StatRows(stats, calc'.a)
                after  == StatRows(stats', calc'.a)
                Old(field) == IF before = <<>> THEN 0 ELSE before[1][field]
            IN  /\ Len(after) = 1
                /\ Len(stats') = Len(stats) + (IF before = <<>> THEN 1 ELSE 0)
                /\ after[1].total_requests = Old("total_requests") + 1
                /\ after[1].successful_requests
                       = Old("successful_requests") + calc'.b[1]
                /\ after[1].failed_requests
                       = Old("failed_requests") + (1 - calc'.b[1])
                /\ \A i \in 1..Len(stats) :
                       <<stats[i].provider_name, stats[i].search_date>> # calc'.a
                           => stats'[i] = stats[i]]_vars

C18_Witness ==
    /\ Len(stats) = 2
    /\ stats[1].provider_name = stats[2].provider_name
    /\ stats[1].total_requests = 2
    /\ stats[1].successful_requests = 1
    /\ stats[1].failed_requests = 1
    /\ calc.a = <<stats[1].provider_name, stats[1].search_date>>

\* C19: a call that updates an existing row leaves both averages at
\* (oldAvg * (n - 1) + newValue) / n, n being the row's total_requests with
\* this call counted, and neither average is ever NULL
C19_RunningAverages ==
    /\ [](\A i \in 1..Len(stats) :
              /\ ~IsSqlNull(stats[i].avg_response_time_ms)
              /\ ~IsSqlNull(stats[i].avg_results_returned))
    /\ [][(calc'.fn = "recordProviderStats" /\ StatRows(stats, calc'.a) # <<>>) =>
            LET old == StatRows(stats, calc'.a)[1]
                new == StatRows(stats', calc'.a)[1]
                n   == new.total_requests
            IN  /\ new.avg_response_time_ms
                       = SqlAverage(old.avg_response_time_ms, n - 1, calc'.b[2], n)
                /\ new.avg_results_returned
                       = SqlAverage(old.avg_results_returned, n - 1, calc'.b[3], n)]_vars


-----------------------------------------------------------------------------
(* What a served search leaves in the store *)

\* every entity of the response has its row in the entity table
ResponseStored ==
    \A i \in 1..Len(response.entities) :
        \E k \in 1..Len(entities) :
            /\ entities[k].entity_name = response.entities[i].entity_name
            /\ entities[k].provider_source = response.entities[i].provider_source

\* a search answered by the mock provider or by the local cache leaves the
\* entity table and the link table at the size they had
NonCachingAddsNothing ==
    (pc = "done" /\ response.kind = "result" /\ response.provider \in {"mock", "local"}) =>
        /\ Len(entities) = obs.rowsBefore
        /\ Len(results) = obs.linksBefore

AnsweredByExternal ==
    /\ pc = "done"
    /\ response.kind = "result"
    /\ response.provider \in {"perenual", "gbif", "inaturalist"}

WriteBackFailed ==
    \E i \in 1..Len(obs.events) : obs.events[i].op = "store" /\ ~obs.events[i].ok

-----------------------------------------------------------------------------
(* More about PlantSearchFactory.search *)

\* C21: when searchLocal raises during a request, search raises to its
\* caller: the request does not go on to the provider loop
C21_CacheReadFailureFatal ==
    (pc \in {"loop", "done"} /\ obs.localFailedAt = "searchLocal") =>
        /\ pc = "done"
        /\ response.kind = "raise"

\* the events of the request about provider p
EventsOf(p) == SelectSeq(obs.events, LAMBDA e : e.p = p)

\* the positions of an event kind among the events of provider p
Positions(p, op, ok) ==
    {i \in 1..Len(EventsOf(p)) : EventsOf(p)[i].op = op /\ EventsOf(p)[i].ok = ok}

\* C22: a provider whose isAvailable() returned false in the request is not
\* searched, has exactly one stat record, a failed one with latency 0 and 0
\* results, and the request goes on (it does not raise there); a provider is
\* searched only after its isAvailable() returned true
C22_UnavailableProvider ==
    \A p \in ProviderTypes \ {"local"} :
        /\ Positions(p, "isAvailable", FALSE) # {} =>
              /\ \A e \in SeqRange(EventsOf(p)) : e.op # "search"
              /\ \E e \in SeqRange(EventsOf(p)) : e.op = "stat"
              /\ \A e \in SeqRange(EventsOf(p)) :
                    e.op = "stat" => e = TimedStat(p, FALSE, 0, 0)
              /\ Cardinality({i \in 1..Len(EventsOf(p)) : EventsOf(p)[i].op = "stat"}) = 1
              /\ response.kind # "raise"
        /\ \A i \in 1..Len(EventsOf(p)) :
              EventsOf(p)[i].op = "search" =>
                  \E j \in 1..(i - 1) : EventsOf(p)[j] = Event("isAvailable", p, TRUE, 0)

\* C23: a provider whose construction raised in the request gets exactly one
\* stat record, a failed one with latency 0 and 0 results, is neither probed
\* nor searched, and the request does not raise to its caller
C23_ConfigurationError ==
    \A p \in ProviderTypes \ {"local"} :
        (pc \in {"loop", "done"} /\ Positions(p, "create", FALSE) # {}) =>
            /\ EventsOf(p) = <<Event("create", p, FALSE, 0), TimedStat(p, FALSE, 0, 0)>>
            /\ response.kind # "raise"

-----------------------------------------------------------------------------
(* What the query table shows *)

\* the rows of a query table with a hash
HashRows(table, hash) == SelectSeq(table, LAMBDA r : r.query_hash = hash)

\* C25: a recordQuery call for a text whose hash has a row adds exactly 1 to
\* that row's search_count and returns its id; otherwise it inserts exactly
\* one row with search_count 1 and returns the new id; no other row changes,
\* and no two rows ever hold the same normalized form (two raw texts with one
\* normalized form update one row)
C25_RecordQuery ==
    /\ [](\A i, j \in 1..Len(queries) :
             queries[i].query_normalized = queries[j].query_normalized => i = j)
    /\ [][calc'.fn = "recordQuery" =>
            LET before == HashRows(queries, Hashed[calc'.a])
                after  == HashRows(queries', Hashed[calc'.a])
            IN  /\ Len(after) = 1
                /\ after[1].id = calc'.b
                /\ IF before = <<>>
                   THEN /\ Len(queries') = Len(queries) + 1
                        /\ after[1].search_count = 1
                        /\ after[1].query_normalized = normalizeQuery(calc'.a)
                        /\ \A i \in 1..Len(queries) : queries[i].id # calc'.b
                   ELSE /\ Len(queries') = Len(queries)
                        /\ after[1].search_count = before[1].search_count + 1
                        /\ after[1].id = before[1].id
                /\ \A i \in 1..Len(queries) :
                       queries[i].query_hash # Hashed[calc'.a] => queries'[i] = queries[i]]_vars

\* two spellings of one query and one more call: one row counted twice, and
\* the last call returned the id of that row
C25_Witness ==
    /\ calc.fn = "recordQuery"
    /\ calc.a = FicusLoud
    /\ Len(queries) = 2
    /\ queries[1].query_original = Ficus
    /\ queries[1].search_count = 2
    /\ calc.b = queries[1].id
    /\ queries[2].search_count = 1

-----------------------------------------------------------------------------
(* More about calculateSimilarity *)

\* C26: for the query and candidate of a calculateSimilarity call and any
\* other candidate, when the edit distance from the normalized query to the
\* first normalized candidate is smaller than to the second, the score of
\* the first is at least the score of the second; and every call returns a
\* number
C26_SimilarityMonotone ==
    calc.fn = "calculateSimilarity" =>
        LET Closer(nq, n1, n2) == LevenshteinDistance(nq, n1) < LevenshteinDistance(nq, n2)
        IN  /\ calc.sim[2] > 0
            /\ \A c2 \in Texts(MaxNameLen) :
                   Closer(normalizeQuery(calc.a), normalizeQuery(calc.b), normalizeQuery(c2))
                       => ~FracGreater(calculateSimilarity(calc.a, c2), calc.sim)

-----------------------------------------------------------------------------
(* Addresses and counters across the cache *)

\* C27: every entity of a response served from the Entity Store carries the
\* address its originating provider issued for it: the id in the address is
\* the provider's own id of the record and the tag is the provider's
C27_AddressStable ==
    (pc = "done" /\ response.kind = "result" /\ response.provider = "local") =>
        \A i \in 1..Len(response.entities) :
            /\ ToDecimal(response.entities[i].token_id) = response.entities[i].provider_id
            /\ response.entities[i].token_provider = response.entities[i].provider_source

\* the search_count values of a query table added up
RECURSIVE TotalCount(_)
TotalCount(table) ==
    IF table = <<>> THEN 0 ELSE Head(table).search_count + TotalCount(Tail(table))

\* C28: once a request is answered (no store statement having failed), the
\* query of the request has a row, no normalized query has two rows, and the
\* search_count values add up to the number of requests made: each request
\* counted once for its normalized query
C28_QueryCounter ==
    (pc = "done" /\ faults = 0) =>
        /\ \E i \in 1..Len(queries) : queries[i].query_normalized = normalizeQuery(req.query)
        /\ \A i, j \in 1..Len(queries) :
               queries[i].query_normalized = queries[j].query_normalized => i = j
        /\ TotalCount(queries) = nreq

\* the callers of recordQuery whose text has a hash
CallersOf(hash) == {c \in 1..MaxCallers : callers[c].at # "idle" /\ Hashed[callers[c].query] = hash}

\* C29: when every concurrent recordQuery call has returned, the query table
\* holds exactly one row for the hash of each call, and that row's
\* search_count is the number of calls made with that hash
C29_ConcurrentRecordQuery ==
    (\A c \in 1..MaxCallers : callers[c].at = "done") =>
        \A c \in 1..MaxCallers :
            /\ Len(HashRows(queries, Hashed[callers[c].query])) = 1
            /\ HashRows(queries, Hashed[callers[c].query])[1].search_count
                   = Cardinality(CallersOf(Hashed[callers[c].query]))

-----------------------------------------------------------------------------
(* The order of the rules of calculateSimilarity *)

\* C30: when the normalized candidate starts with the normalized query and
\* differs from it, the score is 0.8 * len(query) / len(candidate); and no
\* pair reaches the prefix rule (a candidate that starts with the query
\* without being equal to it or containing it)
C30_PrefixRuleShadowed ==
    calc.fn = "calculateSimilarity" =>
        LET Shadowed(nq, nt) ==
                /\ (StartsWith(nt, nq) /\ nt # nq) => calc.sim = <<4 * Len(nq), 5 * Len(nt)>>
                /\ ~(nq # nt /\ ~Includes(nt, nq) /\ StartsWith(nt, nq))
        IN  Shadowed(normalizeQuery(calc.a), normalizeQuery(calc.b))

\* 'a' against 'aB': a proper prefix, scored 0.8 * 1/2
C30_Witness ==
    /\ calc.fn = "calculateSimilarity"
    /\ calc.a = <<"a">>
    /\ calc.b = <<"a", "B">>
    /\ calc.sim = <<4, 10>>

=============================================================================
